---- MODULE Spec2Model ----
(***************************************************************************)
(* KPI entry service, CSV migration orchestrator and ranking statistics of *)
(* api.kpiv2.com, modelled as a state machine over the document store.     *)
(*                                                                         *)
(* The document store (tbl_kpi_entries) is the sequence `store` in natural *)
(* (insertion) order; an entry's _id is its position.  Requests are run by *)
(* tasks; the awaits between an existence pre-check and the insert that    *)
(* follows it are the task's suspension points.                            *)
(***************************************************************************)
EXTENDS Integers, Sequences, FiniteSets, TLC

\* ------------------------------------------------------------------ bounds
MaxEntries == 2
MaxRecords == 2

\* ------------------------------------------------------------ value domain
\* A raw KPI value is a JS number or a JS string (z.union([number,string])).
Num(n) == [isNum |-> TRUE, num |-> n, str |-> ""]
Str(s) == [isNum |-> FALSE, num |-> 0, str |-> s]

Min(a, b) == IF a <= b THEN a ELSE b

RECURSIVE SumScores(_)
SumScores(vals) ==
  IF vals = <<>> THEN 0 ELSE Head(vals).score + SumScores(Tail(vals))

\* --------------------------------------------------------------- templates
\* KpiTemplateModel documents (read-only for this module).
ThresholdRule(v, s) == [kind |-> "value", value |-> Num(v), min |-> 0, max |-> 0, score |-> s]
RangeRule(lo, hi, s) == [kind |-> "range", value |-> Num(0), min |-> lo, max |-> hi, score |-> s]
ExactRule(v, s) == [kind |-> "value", value |-> v, min |-> 0, max |-> 0, score |-> s]

ItemDisposal ==
  [name |-> "disposal", maxMarks |-> 10, kpiType |-> "percentage",
   scoringRules |-> <<ThresholdRule(50, 5), ThresholdRule(90, 10)>>]
ItemMarks ==
  [name |-> "marks", maxMarks |-> 5, kpiType |-> "score", scoringRules |-> <<>>]

\* Role names are character sequences, so that startsWith can be computed.
RoleCollector == <<"c", "o", "l">>
RoleTehsildar == <<"t", "e", "h">>

TemplateIds == {"t1", "t2", "t3"}
NoTemplateId == "t0"

Templates ==
  [t \in TemplateIds |->
     IF t = "t1"
     THEN [name |-> "Collector", departmentSlug |-> "collector-office",
           role |-> RoleCollector, template |-> <<ItemDisposal, ItemMarks>>]
     ELSE IF t = "t2"
     THEN [name |-> "Tehsildar", departmentSlug |-> "revenue-department",
           role |-> RoleTehsildar, template |-> <<ItemDisposal>>]
     ELSE [name |-> "Revenue collector", departmentSlug |-> "revenue-department",
           role |-> RoleCollector, template |-> <<ItemDisposal>>]]

\* KpiTemplateModel.findById
TemplateExists(tid) == tid \in TemplateIds

\* template.template.find(item => item.name === name): index or 0
FindItem(template, name) ==
  IF \E i \in 1..Len(template.template) : template.template[i].name = name
  THEN CHOOSE i \in 1..Len(template.template) :
         /\ template.template[i].name = name
         /\ \A j \in 1..(i-1) : template.template[j].name # name
  ELSE 0

\* ----------------------------------------------------------- scoring engine
\* mutant: a score value is only checked to be a non-negative number
validateValueByTypeNoMax(item, value) ==
  CASE item.kpiType = "quantitative" ->
         IF ~value.isNum THEN "type" ELSE IF value.num < 0 THEN "range" ELSE ""
    [] item.kpiType = "percentage" ->
         IF ~value.isNum THEN "type"
         ELSE IF value.num < 0 \/ value.num > 100 THEN "range" ELSE ""
    [] item.kpiType = "binary" -> IF value.isNum THEN "type" ELSE ""
    [] item.kpiType = "qualitative" -> IF value.isNum THEN "type" ELSE ""
    [] item.kpiType = "score" ->
         IF ~value.isNum THEN "type"
         ELSE IF value.num < 0 THEN "range" ELSE ""
    [] OTHER -> "unknownType"

\* validateValueByType: "" when the value is in the item's domain, else the
\* kind of the Error thrown.
validateValueByType(item, value) ==
  CASE item.kpiType = "quantitative" ->
         IF ~value.isNum THEN "type" ELSE IF value.num < 0 THEN "range" ELSE ""
    [] item.kpiType = "percentage" ->
         IF ~value.isNum THEN "type"
         ELSE IF value.num < 0 \/ value.num > 100 THEN "range" ELSE ""
    [] item.kpiType = "binary" -> IF value.isNum THEN "type" ELSE ""
    [] item.kpiType = "qualitative" -> IF value.isNum THEN "type" ELSE ""
    [] item.kpiType = "score" ->
         IF ~value.isNum THEN "type"
         ELSE IF value.num < 0 \/ value.num > item.maxMarks THEN "range" ELSE ""
    [] OTHER -> "unknownType"

\* [...scoringRules].sort((a, b) => b.value - a.value): stable, descending
RECURSIVE InsertRuleDesc(_, _)
InsertRuleDesc(sorted, r) ==
  IF sorted = <<>> THEN <<r>>
  ELSE IF Head(sorted).value.num >= r.value.num
       THEN <<Head(sorted)>> \o InsertRuleDesc(Tail(sorted), r)
       ELSE <<r>> \o sorted

\* mutant: the rules are tried in their authored order
SortRulesAuthored(rules) == rules

RECURSIVE SortRulesDesc(_)
SortRulesDesc(rules) ==
  IF rules = <<>> THEN <<>>
  ELSE InsertRuleDesc(SortRulesDesc(SubSeq(rules, 1, Len(rules) - 1)),
                      rules[Len(rules)])

\* matchesRule for the non-percentage, non-score types
matchesRule(rule, value, kpiType) ==
  IF kpiType \in {"binary", "qualitative"}
  THEN rule.kind = "value" /\ rule.value = value
  ELSE IF rule.kind = "range"
       THEN value.num >= rule.min /\ value.num <= rule.max
       ELSE rule.value = value

RECURSIVE FirstMatchScore(_, _, _)
FirstMatchScore(rules, value, kpiType) ==
  IF rules = <<>> THEN 0
  ELSE IF kpiType = "percentage"
       THEN IF value.num >= Head(rules).value.num
            THEN Head(rules).score
            ELSE FirstMatchScore(Tail(rules), value, kpiType)
       ELSE IF matchesRule(Head(rules), value, kpiType)
            THEN Head(rules).score
            ELSE FirstMatchScore(Tail(rules), value, kpiType)

calculateScore(item, value) ==
  IF item.kpiType = "score" THEN Min(value.num, item.maxMarks)
  ELSE IF item.kpiType = "percentage"
       THEN FirstMatchScore(SortRulesDesc(item.scoringRules), value, "percentage")
       ELSE FirstMatchScore(item.scoringRules, value, item.kpiType)

\* mutant: an invalid value is left out and the others are scored
RECURSIVE validateAndCalculateScoresLenient(_, _)
validateAndCalculateScoresLenient(template, values) ==
  IF values = <<>> THEN [ok |-> TRUE, values |-> <<>>, error |-> ""]
  ELSE LET v == Head(values)
           i == FindItem(template, v.name)
           rest == validateAndCalculateScoresLenient(template, Tail(values))
       IN IF i = 0 \/ validateValueByType(template.template[IF i = 0 THEN 1 ELSE i],
                                          v.value) # ""
          THEN rest
          ELSE [ok |-> TRUE, error |-> "",
                values |-> <<[name |-> v.name, value |-> v.value,
                              score |-> calculateScore(template.template[i], v.value)]>>
                         \o rest.values]

\* validateAndCalculateScores: the scored list, or the first Error thrown.
RECURSIVE validateAndCalculateScores(_, _)
validateAndCalculateScores(template, values) ==
  IF values = <<>> THEN [ok |-> TRUE, values |-> <<>>, error |-> ""]
  ELSE LET v == Head(values)
           i == FindItem(template, v.name)
       IN IF i = 0 THEN [ok |-> FALSE, values |-> <<>>, error |-> "itemNotFound"]
          ELSE LET item == template.template[i]
                   bad == validateValueByType(item, v.value)
               IN IF bad # "" THEN [ok |-> FALSE, values |-> <<>>, error |-> bad]
                  ELSE LET rest == validateAndCalculateScores(template, Tail(values))
                       IN IF ~rest.ok THEN rest
                          ELSE [ok |-> TRUE, error |-> "",
                                values |-> <<[name |-> v.name, value |-> v.value,
                                              score |-> calculateScore(item, v.value)]>>
                                           \o rest.values]

\* validateTemplateItems: TRUE iff no provided name is absent from the template
validateTemplateItems(template, values) ==
  \A i \in 1..Len(values) : FindItem(template, values[i].name) # 0


\* ------------------------------------------------------- identity service
\* The remote auth service: two members, addressed by user id
\* (GET /members/{id}) or by name (GET /members/name/{name}).
Users == {"u1", "u2"}
UnknownUser == "u9"
OfficerNames == {"A", "B", "Z"}

UserOfName(name) == IF name = "A" THEN "u1" ELSE IF name = "B" THEN "u2" ELSE ""

Ref(l, v) == [label |-> l, value |-> v]

\* member.metadata.kpiRef lists the identity service may hold for a member
KpiRefLists ==
  { <<>>,
    <<Ref("court", "c1")>>,
    <<Ref("court", "c1"), Ref("court", "c2")>>,
    <<Ref("court", "c1"), Ref("area", "c1")>> }

Months == {1, 2}
Year == 2024
Statuses == {"created", "initiated", "generated"}

\* ------------------------------------------------------------------- state
VARIABLES
  kpiRefOf,   \* identity service: user id -> metadata.kpiRef
  store,      \* tbl_kpi_entries in natural order
  task        \* the requests in flight and their responses, one per task

vars == <<kpiRefOf, store, task>>

Tasks == {1, 2}

\* fetchMemberByName: the member, or found = FALSE for null
fetchMemberByName(name) ==
  IF UserOfName(name) = ""
  THEN [found |-> FALSE, userId |-> "", kpiRef |-> <<>>]
  ELSE [found |-> TRUE, userId |-> UserOfName(name),
        kpiRef |-> kpiRefOf[UserOfName(name)]]

\* GET /members/{createdFor}
fetchMemberById(uid) ==
  IF uid \in Users
  THEN [found |-> TRUE, userId |-> uid, kpiRef |-> kpiRefOf[uid]]
  ELSE [found |-> FALSE, userId |-> "", kpiRef |-> <<>>]

\* --------------------------------------------------------------- documents
NewEntry(m, y, tid, ref, vals, st, total, cf) ==
  [month |-> m, year |-> y, templateId |-> tid, kpiRef |-> ref,
   values |-> vals, status |-> st, totalScore |-> total, createdFor |-> cf]

\* KpiEntryModel.findOne({createdFor, month, year, templateId})
ExistsEntry(s, cf, m, y, tid) ==
  \E i \in 1..Len(s) :
    /\ s[i].createdFor = cf /\ s[i].month = m
    /\ s[i].year = y /\ s[i].templateId = tid

\* KpiEntryModel.findOne({createdFor, month, year, templateId, 'kpiRef.value'})
ExistsEntryForCourt(s, cf, m, y, tid, court) ==
  \E i \in 1..Len(s) :
    /\ s[i].createdFor = cf /\ s[i].month = m
    /\ s[i].year = y /\ s[i].templateId = tid
    /\ s[i].kpiRef.value = court

\* ---------------------------------------------------------------- requests
ZeroDetails ==
  [n \in OfficerNames |-> [present |-> FALSE, success |-> FALSE, message |-> ""]]

ZeroResult ==
  [totalRecords |-> 0, successfulEntries |-> 0, failedEntries |-> 0,
   skippedEntries |-> 0, errors |-> <<>>, details |-> ZeroDetails]

NoRanked ==
  [filters |-> <<>>, rankings |-> <<>>, total |-> 0, page |-> 0, limit |-> 0,
   totalPages |-> 0, hasNextPage |-> FALSE, hasPreviousPage |-> FALSE]

\* no statistics response yet
NoStats == [kind |-> "none"]

NoReport ==
  [totalEntries |-> 0, updatedEntries |-> 0, skippedEntries |-> 0,
   department |-> ""]

\* A task: the request it runs (op), where it is (pc: idle, insert, check,
\* save, done), the request's arguments and locals, and once pc = "done" the
\* response (ok / error and the operation's result).
\* A confidence is the fraction num / den; 1.0 is 1/1 and 0 is 0/1.
Fraction(num, den) == [num |-> num, den |-> den]

\* HeaderMapping | null: found is FALSE for null
NoMapping ==
  [found |-> FALSE, originalHeader |-> <<>>, normalizedHeader |-> "",
   confidence |-> Fraction(0, 1)]

IdleTask ==
  [op |-> "idle", pc |-> "idle", month |-> 0, year |-> 0, templateId |-> "",
   createdFor |-> "", csv |-> <<>>, idx |-> 0, result |-> ZeroResult,
   rerun |-> FALSE, prev |-> ZeroResult, startLen |-> 0,
   id |-> 0, status |-> "", ok |-> TRUE, error |-> "", ranked |-> NoRanked,
   report |-> NoReport, stats |-> NoStats, args |-> <<>>, scored |-> <<>>,
   parsed |-> <<>>, matched |-> NoMapping]

Done(op, ok, error) ==
  [IdleTask EXCEPT !.op = op, !.pc = "done", !.ok = ok, !.error = error]

DoneFor(op, id, ok, error) == [Done(op, ok, error) EXCEPT !.id = id]

AllIdle == \A p \in Tasks : task[p].op = "idle"

Directories ==
  {d \in [Users -> KpiRefLists] : d["u2"] = <<Ref("court", "c1")>>}

\* every directory of the identity service
InitMig ==
  /\ kpiRefOf \in Directories
  /\ store = <<>>
  /\ task = [p \in Tasks |-> IdleTask]

\* one court per member
Init ==
  /\ kpiRefOf = [u \in Users |-> <<Ref("court", "c1")>>]
  /\ store = <<>>
  /\ task = [p \in Tasks |-> IdleTask]

\* The response reaches the caller; the task can take the next request.
Return(p) ==
  /\ task[p].pc = "done"
  /\ task' = [task EXCEPT ![p] = IdleTask]
  /\ UNCHANGED <<kpiRefOf, store>>

\* ---- createKpiEntry --------------------------------------------------------
\* First part: template lookup and the existence pre-check.
CreateCheck(p, m, tid, cf) ==
  /\ task[p].op = "idle"
  /\ UNCHANGED <<kpiRefOf, store>>
  /\ IF ~TemplateExists(tid)
     THEN task' = [task EXCEPT ![p] = Done("create", FALSE, "KPI template not found")]
     ELSE IF ExistsEntry(store, cf, m, Year, tid)
     THEN task' = [task EXCEPT ![p] = Done("create", FALSE, "KPI entry already exists")]
     ELSE task' = [task EXCEPT ![p] =
                     [IdleTask EXCEPT !.op = "create", !.pc = "insert",
                                      !.month = m, !.year = Year,
                                      !.templateId = tid, !.createdFor = cf]]

\* newKpiEntriesDocs: one document per element of member.metadata.kpiRef
RECURSIVE NewKpiEntriesDocs(_, _)
NewKpiEntriesDocs(t, refs) ==
  IF refs = <<>> THEN <<>>
  ELSE <<NewEntry(t.month, t.year, t.templateId, Head(refs), <<>>, "created",
                  0, t.createdFor)>>
       \o NewKpiEntriesDocs(t, Tail(refs))

\* mutant: insertMany against a unique index on the entry key
InsertManyUnique(s, docs) ==
  IF \E i \in 1..Len(s), j \in 1..Len(docs) :
       <<s[i].createdFor, s[i].month, s[i].year, s[i].templateId, s[i].kpiRef.value>>
       = <<docs[j].createdFor, docs[j].month, docs[j].year, docs[j].templateId,
           docs[j].kpiRef.value>>
  THEN s
  ELSE s \o docs

\* KpiEntryModel.insertMany: the collection has no unique index
InsertMany(s, docs) == s \o docs

\* Second part: member fetch and insertMany.
CreateInsert(p) ==
  /\ task[p].op = "create"
  /\ task[p].pc = "insert"
  /\ UNCHANGED kpiRefOf
  /\ LET member == fetchMemberById(task[p].createdFor)
         docs == NewKpiEntriesDocs(task[p], member.kpiRef)
     IN IF ~member.found
        THEN /\ task' = [task EXCEPT ![p] = [task[p] EXCEPT
                           !.pc = "done", !.ok = FALSE,
                           !.error = "Failed to fetch member"]]
             /\ UNCHANGED store
        ELSE /\ Len(store) + Len(docs) <= MaxEntries
             /\ store' = InsertMany(store, docs)
             /\ task' = [task EXCEPT ![p] = [task[p] EXCEPT !.pc = "done"]]

\* ---- migrateCsvData / createKpiEntryFromCsvData ----------------------------
\* A CsvKpiData record as parseCsvData returns it: courtName "" is absent;
\* kpiValues is listed in Object.entries order (names are distinct).
Kv(n, v) == [name |-> n, value |-> Num(v)]

CsvRecord(officer, court, kvs) ==
  [officerName |-> officer, courtName |-> court, kpiValues |-> kvs]

CsvRecords ==
  { CsvRecord("A", "", <<Kv("disposal", 95)>>),
    CsvRecord("A", "c1", <<Kv("disposal", 60)>>),
    CsvRecord("A", "c2", <<Kv("disposal", 95)>>),
    CsvRecord("B", "", <<Kv("disposal", 120)>>),
    CsvRecord("B", "c1", <<Kv("bogus", 1)>>),
    CsvRecord("Z", "", <<Kv("disposal", 60)>>) }

CsvBatches ==
  UNION { [1..n -> CsvRecords] : n \in 0..MaxRecords }

Detail(ok, msg) == [present |-> TRUE, success |-> ok, message |-> msg]

\* mutant: a skip that records the detail but forgets the counter
SkippedUncounted(r, officer, msg) ==
  [r EXCEPT !.details = [@ EXCEPT ![officer] = Detail(FALSE, msg)]]

\* result.skippedEntries++; result.details[officerName] = {...}; continue
Skipped(r, officer, msg) ==
  [r EXCEPT !.skippedEntries = @ + 1,
            !.details = [@ EXCEPT ![officer] = Detail(FALSE, msg)]]

\* the per-record catch block
Failed(r, officer, msg) ==
  [r EXCEPT !.failedEntries = @ + 1,
            !.errors = Append(@, [officer |-> officer, message |-> msg]),
            !.details = [@ EXCEPT ![officer] = Detail(FALSE, msg)]]

Succeeded(r, officer, msg) ==
  [r EXCEPT !.successfulEntries = @ + 1,
            !.details = [@ EXCEPT ![officer] = Detail(TRUE, msg)]]

\* member.metadata?.kpiRef?.find(ref => ref.label === 'court' &&
\*                                      ref.value === courtName): index or 0
MatchingCourtRef(refs, court) ==
  IF \E i \in 1..Len(refs) : refs[i].label = "court" /\ refs[i].value = court
  THEN CHOOSE i \in 1..Len(refs) :
         /\ refs[i].label = "court" /\ refs[i].value = court
         /\ \A j \in 1..(i-1) : ~(refs[j].label = "court" /\ refs[j].value = court)
  ELSE 0

\* the task after a record's outcome r: the for loop moves to the next
\* record, or the function returns result
AfterRecord(t, r) ==
  IF t.idx < Len(t.csv)
  THEN [t EXCEPT !.idx = @ + 1, !.pc = "check", !.result = r]
  ELSE [t EXCEPT !.idx = @ + 1, !.pc = "done", !.result = r]

\* migrateCsvData up to the first record of createKpiEntryFromCsvData
MigrateBegin(csv, m, tid, rerun, prev) ==
  IF csv = <<>>
  THEN [Done("migrate", TRUE, "") EXCEPT
          !.month = m, !.year = Year, !.templateId = tid,
          !.rerun = rerun, !.prev = prev, !.startLen = Len(store),
          !.result = [ZeroResult EXCEPT
                        !.errors = <<[officer |-> "",
                                      message |-> "No valid data found in CSV"]>>]]
  ELSE IF ~TemplateExists(tid)
  THEN [Done("migrate", FALSE, "Template not found") EXCEPT
          !.month = m, !.year = Year, !.templateId = tid, !.csv = csv]
  ELSE [IdleTask EXCEPT
          !.op = "migrate", !.pc = "check", !.month = m, !.year = Year,
          !.templateId = tid, !.csv = csv, !.idx = 1,
          !.result = [ZeroResult EXCEPT !.totalRecords = Len(csv)],
          !.rerun = rerun, !.prev = prev, !.startLen = Len(store)]

MigrateStart(p, csv, m, tid) ==
  /\ task[p].op = "idle"
  /\ task' = [task EXCEPT ![p] = MigrateBegin(csv, m, tid, FALSE, ZeroResult)]
  /\ UNCHANGED <<kpiRefOf, store>>

\* The caller submits the request it just got the result of once more.
MigrateAgain(p) ==
  /\ task[p].op = "migrate"
  /\ task[p].pc = "done"
  /\ task[p].ok
  /\ ~task[p].rerun
  /\ task' = [task EXCEPT ![p] =
                MigrateBegin(task[p].csv, task[p].month, task[p].templateId,
                             TRUE, task[p].result)]
  /\ UNCHANGED <<kpiRefOf, store>>

\* mutant: the pre-check of a court record ignores the existing entries
PreCheckNoCourtLookup(t, s) ==
  LET record == t.csv[t.idx]
      member == fetchMemberByName(record.officerName)
  IN IF ~member.found THEN "Member not found"
     ELSE IF record.courtName # ""
     THEN IF MatchingCourtRef(member.kpiRef, record.courtName) = 0
          THEN "Court not found in member's kpiRef"
          ELSE ""
     ELSE IF ExistsEntry(s, member.userId, t.month, t.year, t.templateId)
          THEN "Entry already exists"
          ELSE ""

\* mutant: a court the member does not hold falls through to the save
PreCheckCourtFallback(t, s) ==
  LET record == t.csv[t.idx]
      member == fetchMemberByName(record.officerName)
  IN IF ~member.found THEN "Member not found"
     ELSE IF record.courtName # ""
     THEN IF MatchingCourtRef(member.kpiRef, record.courtName) = 0
          THEN ""
          ELSE IF ExistsEntryForCourt(s, member.userId, t.month, t.year,
                                      t.templateId, record.courtName)
          THEN "Entry already exists for court"
          ELSE ""
     ELSE IF ExistsEntry(s, member.userId, t.month, t.year, t.templateId)
          THEN "Entry already exists"
          ELSE ""

\* mutant: the pre-check of a court record looks for an entry of any court
PreCheckAnyCourt(t, s) ==
  LET record == t.csv[t.idx]
      member == fetchMemberByName(record.officerName)
  IN IF ~member.found THEN "Member not found"
     ELSE IF record.courtName # ""
     THEN IF MatchingCourtRef(member.kpiRef, record.courtName) = 0
          THEN "Court not found in member's kpiRef"
          ELSE IF ExistsEntry(s, member.userId, t.month, t.year, t.templateId)
          THEN "Entry already exists for court"
          ELSE ""
     ELSE IF ExistsEntry(s, member.userId, t.month, t.year, t.templateId)
          THEN "Entry already exists"
          ELSE ""

\* the outcome of a record's lookups and existence pre-check (findOne):
\* "" when the record goes on to be scored and saved, else the skip message
PreCheck(t, s) ==
  LET record == t.csv[t.idx]
      member == fetchMemberByName(record.officerName)
  IN IF ~member.found THEN "Member not found"
     ELSE IF record.courtName # ""
     THEN IF MatchingCourtRef(member.kpiRef, record.courtName) = 0
          THEN "Court not found in member's kpiRef"
          ELSE IF ExistsEntryForCourt(s, member.userId, t.month, t.year,
                                      t.templateId, record.courtName)
          THEN "Entry already exists for court"
          ELSE ""
     ELSE IF ExistsEntry(s, member.userId, t.month, t.year, t.templateId)
          THEN "Entry already exists"
          ELSE ""

\* One record up to and including the existence pre-check.
MigrateCheck(p) ==
  /\ task[p].op = "migrate"
  /\ task[p].pc = "check"
  /\ UNCHANGED <<kpiRefOf, store>>
  /\ LET t == task[p]
         skip == PreCheck(t, store)
     IN IF skip # ""
        THEN task' = [task EXCEPT ![p] =
                        AfterRecord(t, Skipped(t.result, t.csv[t.idx].officerName, skip))]
        ELSE task' = [task EXCEPT ![p].pc = "save"]

\* kpiRef of the document migration builds for a record
MigrationKpiRef(member, court) ==
  IF court # "" THEN member.kpiRef[MatchingCourtRef(member.kpiRef, court)]
  ELSE IF Len(member.kpiRef) > 0 THEN member.kpiRef[1]
  ELSE Ref("area", "raipur")

\* kpiEntry.save(): inserts the document, the collection has no unique index
SaveEntry(s, doc) == Append(s, doc)

\* mutant: an exception in one record ends the batch
CatchRecordAbort(t, officer, msg) ==
  [t EXCEPT !.pc = "done", !.result = Failed(t.result, officer, msg)]

\* the catch block of the record loop: what happens to the batch after an
\* exception in one record
CatchRecord(t, officer, msg) == AfterRecord(t, Failed(t.result, officer, msg))

\* The same record from validateAndCalculateScores to kpiEntry.save();
\* saveOk = FALSE is the store rejecting the save.
MigrateSave(p, saveOk) ==
  /\ task[p].op = "migrate"
  /\ task[p].pc = "save"
  /\ UNCHANGED kpiRefOf
  /\ LET t == task[p]
         record == t.csv[t.idx]
         member == fetchMemberByName(record.officerName)
         scored == validateAndCalculateScores(Templates[t.templateId],
                                              record.kpiValues)
     IN IF ~scored.ok
        THEN /\ UNCHANGED store
             /\ task' = [task EXCEPT ![p] =
                           CatchRecord(t, record.officerName, scored.error)]
        ELSE IF ~saveOk
        THEN /\ UNCHANGED store
             /\ task' = [task EXCEPT ![p] =
                           CatchRecord(t, record.officerName, "save failed")]
        ELSE /\ Len(store) < MaxEntries
             /\ store' = SaveEntry(store,
                           NewEntry(t.month, t.year, t.templateId,
                                    MigrationKpiRef(member, record.courtName),
                                    scored.values, "generated",
                                    SumScores(scored.values), member.userId))
             /\ task' = [task EXCEPT ![p] =
                           AfterRecord(t, Succeeded(t.result, record.officerName,
                                                    "Entry created successfully"))]

\* ---- updateKpiEntry --------------------------------------------------------
\* A KpiEntryUpdate payload: values, totalScore and status are optional
\* (status "" is absent).
Payload(hasValues, values, hasTotal, total, status) ==
  [hasValues |-> hasValues, values |-> values, hasTotalScore |-> hasTotal,
   totalScore |-> total, status |-> status]

Nv(n, v) == [name |-> n, value |-> v]

UpdateValueLists ==
  { <<>>,
    <<Nv("disposal", Num(95))>>,
    <<Nv("marks", Num(4))>>,
    <<Nv("disposal", Num(60)), Nv("disposal", Num(40))>>,
    <<Nv("marks", Num(9))>>,
    <<Nv("disposal", Str("high"))>>,
    <<Nv("bogus", Num(1))>> }

UpdatePayloads ==
  { Payload(TRUE, v, FALSE, 0, "") : v \in UpdateValueLists }
  \cup { Payload(FALSE, <<>>, FALSE, 0, ""),
         Payload(FALSE, <<>>, TRUE, 7, ""),
         Payload(FALSE, <<>>, FALSE, 0, "generated"),
         Payload(TRUE, <<Nv("disposal", Num(95))>>, TRUE, 7, "generated") }

\* existingValuesMap.set(name, item) on a Map kept in insertion order
MapSet(m, item) ==
  IF \E i \in 1..Len(m) : m[i].name = item.name
  THEN [i \in 1..Len(m) |-> IF m[i].name = item.name THEN item ELSE m[i]]
  ELSE Append(m, item)

RECURSIVE MapSetAll(_, _)
MapSetAll(m, items) ==
  IF items = <<>> THEN m ELSE MapSetAll(MapSet(m, Head(items)), Tail(items))

NameValue(items) == [i \in 1..Len(items) |-> Nv(items[i].name, items[i].value)]

\* mutant: the submitted values replace the stored ones
ReplacedValues(existingValues, newValues) == MapSetAll(<<>>, newValues)

\* Array.from(existingValuesMap.values()) after the merge loop
MergedValues(existingValues, newValues) ==
  MapSetAll(MapSetAll(<<>>, NameValue(existingValues)), newValues)

\* mutant: the update writes the payload's status, or leaves the status alone
UpdatedStatusFromPayload(old, payload) ==
  IF payload.status # "" THEN payload.status ELSE old

\* the status findByIdAndUpdate writes: {...kpiEntry, status: 'initiated'}
UpdatedStatus(old, payload) == "initiated"

\* ---- getEmployeeRankings ---------------------------------------------------
\* StatisticsFilters; month 0 / year 0 are absent (falsy), the array filters
\* are sets (only includes / some are applied to them).
Filters(m, y, deps, roles, exDeps, exRoles, limit, page) ==
  [month |-> m, year |-> y, departments |-> deps, roles |-> roles,
   excludeDepartments |-> exDeps, excludeRoles |-> exRoles,
   limit |-> limit, page |-> page]

DefaultDepartments == {"collector-office", "revenue-department"}
DefaultLimit == 50

RankingFilters ==
  { Filters(m, 0, {}, {}, {}, {}, DefaultLimit, 1) : m \in {0, 1} }

StartsWith(str, prefix) ==
  /\ Len(prefix) <= Len(str)
  /\ SubSeq(str, 1, Len(prefix)) = prefix

\* mutant: the query without the status condition
RankingQueryAnyStatus(e, f) ==
  /\ f.month # 0 => e.month = f.month
  /\ f.year # 0 => e.year = f.year

\* query = { status: 'generated', month?, year? }
RankingQuery(e, f) ==
  /\ e.status = "generated"
  /\ f.month # 0 => e.month = f.month
  /\ f.year # 0 => e.year = f.year

\* mutant: a department named in the inclusion list is counted even when
\* it is excluded
DepartmentMatchInclusionWins(template, f) ==
  IF f.departments # {} THEN template.departmentSlug \in f.departments
  ELSE /\ template.departmentSlug \in DefaultDepartments
       /\ template.departmentSlug \notin f.excludeDepartments

DepartmentMatch(template, f) ==
  LET finalDepartments == IF f.departments # {} THEN f.departments
                          ELSE DefaultDepartments
  IN /\ template.departmentSlug \in finalDepartments
     /\ template.departmentSlug \notin f.excludeDepartments

RoleMatch(template, f) ==
  /\ \/ f.roles = {}
     \/ /\ template.role # <<>>
        /\ \E r \in f.roles : StartsWith(template.role, r)
  /\ ~\E r \in f.excludeRoles :
        template.role # <<>> /\ StartsWith(template.role, r)

RECURSIVE SumMaxMarks(_)
SumMaxMarks(items) ==
  IF items = <<>> THEN 0 ELSE Head(items).maxMarks + SumMaxMarks(Tail(items))

\* one iteration of the grouping loop: employeeScores after `entry`
AddEntryScore(emps, entry, f) ==
  IF ~TemplateExists(entry.templateId) THEN emps
  ELSE LET template == Templates[entry.templateId]
           templateMaxScore == SumMaxMarks(template.template)
           kpi == [templateId |-> entry.templateId, templateName |-> template.name,
                   totalScore |-> entry.totalScore,
                   maxPossibleScore |-> templateMaxScore,
                   status |-> entry.status]
       IN IF ~(DepartmentMatch(template, f) /\ RoleMatch(template, f)) THEN emps
          ELSE IF \E i \in 1..Len(emps) : emps[i].employeeId = entry.createdFor
          THEN [i \in 1..Len(emps) |->
                  IF emps[i].employeeId = entry.createdFor
                  THEN [emps[i] EXCEPT
                          !.totalScore = @ + entry.totalScore,
                          !.maxPossibleScore = @ + templateMaxScore,
                          !.kpiEntries = Append(@, kpi)]
                  ELSE emps[i]]
          ELSE Append(emps,
                 [employeeId |-> entry.createdFor,
                  departmentSlug |-> template.departmentSlug,
                  role |-> template.role,
                  totalScore |-> entry.totalScore,
                  maxPossibleScore |-> templateMaxScore,
                  kpiEntries |-> <<kpi>>,
                  rank |-> 0])

\* employeeScores in Map insertion order, over the entries the query returns
RECURSIVE EmployeeScores(_, _)
EmployeeScores(entries, f) ==
  IF entries = <<>> THEN <<>>
  ELSE LET e == entries[Len(entries)]
           before == EmployeeScores(SubSeq(entries, 1, Len(entries) - 1), f)
       IN IF RankingQuery(e, f) THEN AddEntryScore(before, e, f) ELSE before

\* percentageScore = total / maxPossible * 100 (0 when maxPossible is 0), kept
\* as the exact fraction pctNum / pctDen with pctDen > 0
PctNum(emp) == IF emp.maxPossibleScore > 0 THEN emp.totalScore * 100 ELSE 0
PctDen(emp) == IF emp.maxPossibleScore > 0 THEN emp.maxPossibleScore ELSE 1

\* a.percentageScore >= b.percentageScore
PctGE(a, b) == PctNum(a) * PctDen(b) >= PctNum(b) * PctDen(a)

\* mutant: a sort that puts a later employee before its equals
RECURSIVE InsertRankingUnstable(_, _)
InsertRankingUnstable(sorted, emp) ==
  IF sorted = <<>> THEN <<emp>>
  ELSE IF PctGE(emp, Head(sorted))
       THEN <<emp>> \o sorted
       ELSE <<Head(sorted)>> \o InsertRankingUnstable(Tail(sorted), emp)

\* .sort((a, b) => b.percentageScore - a.percentageScore): stable, descending
RECURSIVE InsertRanking(_, _)
InsertRanking(sorted, emp) ==
  IF sorted = <<>> THEN <<emp>>
  ELSE IF PctGE(Head(sorted), emp)
       THEN <<Head(sorted)>> \o InsertRanking(Tail(sorted), emp)
       ELSE <<emp>> \o sorted

RECURSIVE SortRankings(_)
SortRankings(emps) ==
  IF emps = <<>> THEN <<>>
  ELSE InsertRanking(SortRankings(SubSeq(emps, 1, Len(emps) - 1)),
                     emps[Len(emps)])

\* rankings.forEach((ranking, index) => ranking.rank = index + 1)
AddRanks(rankings) ==
  [i \in 1..Len(rankings) |-> [rankings[i] EXCEPT !.rank = i]]

CeilDiv(a, b) == (a + b - 1) \div b

\* mutant: a slice whose end index is inclusive
SliceInclusive(seq, startIndex, endIndex) ==
  SubSeq(seq, startIndex + 1, Min(endIndex + 1, Len(seq)))

\* rankings.slice(startIndex, endIndex)
Slice(seq, startIndex, endIndex) ==
  SubSeq(seq, startIndex + 1, Min(endIndex, Len(seq)))

\* the response: the page [startIndex, endIndex) of the ranked employees
Paginate(rankings, f) ==
  LET startIndex == (f.page - 1) * f.limit
  IN [filters |-> f,
      rankings |-> Slice(rankings, startIndex, startIndex + f.limit),
      total |-> Len(rankings), page |-> f.page, limit |-> f.limit,
      totalPages |-> CeilDiv(Len(rankings), f.limit),
      hasNextPage |-> f.page < CeilDiv(Len(rankings), f.limit),
      hasPreviousPage |-> f.page > 1]

getEmployeeRankings(s, f) ==
  Paginate(AddRanks(SortRankings(EmployeeScores(s, f))), f)

\* ---- top and bottom 5 percent ---------------------------------------------
\* percentages are kept exact, as reduced fractions num / den with den > 0
RECURSIVE GCD(_, _)
GCD(a, b) == IF b = 0 THEN a ELSE GCD(b, a % b)

Frac(n, d) ==
  LET g == IF n = 0 THEN d ELSE GCD(n, d)
  IN [num |-> n \div g, den |-> d \div g]

FracAdd(x, y) == Frac(x.num * y.den + y.num * x.den, x.den * y.den)

\* ranking.percentageScore
PercentageScore(emp) == Frac(PctNum(emp), PctDen(emp))

\* performers.reduce((sum, r) => sum + r.percentageScore, 0) over
\* rankings[lo..hi]; exact addition is associative, so the sum is taken by
\* halves
RECURSIVE SumPercentageOver(_, _, _)
SumPercentageOver(rankings, lo, hi) ==
  IF lo > hi THEN Frac(0, 1)
  ELSE IF lo = hi THEN PercentageScore(rankings[lo])
  ELSE LET mid == (lo + hi) \div 2
       IN FracAdd(SumPercentageOver(rankings, lo, mid),
                  SumPercentageOver(rankings, mid + 1, hi))

SumPercentage(rankings) == SumPercentageOver(rankings, 1, Len(rankings))

AveragePercentage(rankings) ==
  IF rankings = <<>> THEN Frac(0, 1)
  ELSE LET sum == SumPercentage(rankings)
       IN Frac(sum.num, sum.den * Len(rankings))

\* the limit the statistics pass to getEmployeeRankings
StatsLimit == 1000

\* Math.ceil(totalEmployees * 0.05): in IEEE doubles n * 0.05 rounds up to
\* exactly ceil(n / 20) for every n up to 30000
Ceil5Percent(n) == CeilDiv(n, 20)

\* seq.slice(-k): the last k elements, and the whole array when k is 0
SliceLast(seq, k) ==
  IF k = 0 \/ k >= Len(seq) THEN seq
  ELSE SubSeq(seq, Len(seq) - k + 1, Len(seq))

Reverse(seq) == SubSeq([i \in 1..Len(seq) |-> seq[Len(seq) - i + 1]], 1, Len(seq))

\* {count, performers, cutoffScore, averageScore}
Cohort(count, performers) ==
  [count |-> count, performers |-> performers,
   cutoffScore |-> IF performers # <<>>
                   THEN PercentageScore(performers[Len(performers)])
                   ELSE Frac(0, 1),
   averageScore |-> AveragePercentage(performers)]

\* getEmployeeRankings({...filters, limit: 1000, page: 1})
StatsRankings(s, f) ==
  getEmployeeRankings(s, [f EXCEPT !.limit = StatsLimit, !.page = 1])

\* getTop5Percent after its await, from the rankings response
Top5PercentOf(rankings) ==
  LET totalEmployees == rankings.total
      top5PercentCount == Ceil5Percent(totalEmployees)
      cohort == Cohort(top5PercentCount,
                       Slice(rankings.rankings, 0, top5PercentCount))
  IN [kind |-> "top5", totalEmployees |-> totalEmployees,
      count |-> top5PercentCount, performers |-> cohort.performers,
      cutoffScore |-> cohort.cutoffScore, averageScore |-> cohort.averageScore]

\* getBottom5Percent after its await, from the rankings response
Bottom5PercentOf(rankings) ==
  LET totalEmployees == rankings.total
      bottom5PercentCount == Ceil5Percent(totalEmployees)
      cohort == Cohort(bottom5PercentCount,
                       Reverse(SliceLast(rankings.rankings, bottom5PercentCount)))
  IN [kind |-> "bottom5", totalEmployees |-> totalEmployees,
      count |-> bottom5PercentCount, performers |-> cohort.performers,
      cutoffScore |-> cohort.cutoffScore, averageScore |-> cohort.averageScore]

getTop5Percent(s, f) == Top5PercentOf(StatsRankings(s, f))
getBottom5Percent(s, f) == Bottom5PercentOf(StatsRankings(s, f))

\* ---- department, role and comprehensive statistics ------------------------
\* ranking.departmentSlug or ranking.role
GroupKey(ranking, by) ==
  IF by = "department" THEN ranking.departmentSlug ELSE ranking.role

\* the keys of the statistics Map, in insertion order
RECURSIVE GroupKeys(_, _)
GroupKeys(rankings, by) ==
  IF rankings = <<>> THEN <<>>
  ELSE LET before == GroupKeys(SubSeq(rankings, 1, Len(rankings) - 1), by)
           key == GroupKey(rankings[Len(rankings)], by)
       IN IF \E i \in 1..Len(before) : before[i] = key THEN before
          ELSE Append(before, key)

\* allRankings.rankings.filter(ranking => key(ranking) === key)
GroupMembers(rankings, by, key) ==
  LET InGroup(r) == GroupKey(r, by) = key
  IN SelectSeq(rankings, InGroup)

\* percentageScore >= bound
PctAtLeast(emp, bound) == PctNum(emp) >= bound * PctDen(emp)

\* excellent >= 90, good >= 70, average >= 50, poor otherwise
ScoreDistribution(rankings) ==
  LET n(lo, hi) ==
        Cardinality({i \in 1..Len(rankings) :
                       /\ PctAtLeast(rankings[i], lo)
                       /\ ~PctAtLeast(rankings[i], hi)})
  IN [excellent |-> n(90, 1000), good |-> n(70, 90),
      average |-> n(50, 70), poor |-> n(-1, 50)]

\* the statistics of one Map entry: its members are already in ranked
\* order, which the stable sorts keep
GroupStatistics(rankings, by, key) ==
  LET members == GroupMembers(rankings, by, key)
      count == Ceil5Percent(Len(members))
  IN [key |-> key,
      totalEmployees |-> Len(members),
      averageScore |-> AveragePercentage(members),
      rankings |-> members,
      top5Percent |-> Cohort(count, Slice(members, 0, count)),
      bottom5Percent |-> Cohort(count, Reverse(SliceLast(members, count))),
      scoreDistribution |-> ScoreDistribution(members)]

DepartmentStatistics(g, roles) ==
  [departmentSlug |-> g.key, totalEmployees |-> g.totalEmployees,
   averageScore |-> g.averageScore, rankings |-> g.rankings,
   top5Percent |-> g.top5Percent, bottom5Percent |-> g.bottom5Percent,
   scoreDistribution |-> g.scoreDistribution, roles |-> roles]

RoleStatistics(g) ==
  [role |-> g.key, totalEmployees |-> g.totalEmployees,
   averageScore |-> g.averageScore, rankings |-> g.rankings,
   top5Percent |-> g.top5Percent, bottom5Percent |-> g.bottom5Percent,
   scoreDistribution |-> g.scoreDistribution]

\* the roles field getDepartmentStatistics gives a department: roles: []
DepartmentRoles(rankings, department) == <<>>

getDepartmentStatistics(s, f) ==
  LET all == StatsRankings(s, f).rankings
      keys == GroupKeys(all, "department")
  IN [i \in 1..Len(keys) |->
        DepartmentStatistics(GroupStatistics(all, "department", keys[i]),
                             DepartmentRoles(all, keys[i]))]

getRoleStatistics(s, f) ==
  LET all == StatsRankings(s, f).rankings
      keys == GroupKeys(all, "role")
  IN [i \in 1..Len(keys) |-> RoleStatistics(GroupStatistics(all, "role", keys[i]))]

\* the role statistics getComprehensiveStatistics pushes to a department:
\* those whose first ranked employee belongs to it
ComprehensiveRoles(rankings, roleStats, department) ==
  LET Pushed(role) ==
        LET roleEmployees == GroupMembers(rankings, "role", role.role)
        IN /\ roleEmployees # <<>>
           /\ roleEmployees[1].departmentSlug = department
  IN SelectSeq(roleStats, Pushed)

getComprehensiveStatistics(s, f) ==
  LET rankings == StatsRankings(s, f)
      count == Ceil5Percent(rankings.total)
      departmentStats == getDepartmentStatistics(s, f)
      roleStats == getRoleStatistics(s, f)
  IN [overall |->
        [totalEmployees |-> rankings.total,
         averageScore |->
           IF rankings.total > 0
           THEN LET sum == SumPercentage(rankings.rankings)
                IN Frac(sum.num, sum.den * rankings.total)
           ELSE Frac(0, 1),
         scoreDistribution |-> ScoreDistribution(rankings.rankings),
         rankings |-> rankings.rankings,
         top5Percent |-> Cohort(count, Slice(rankings.rankings, 0, count)),
         bottom5Percent |->
           Cohort(count, Reverse(SliceLast(rankings.rankings, count)))],
      departments |->
        [i \in 1..Len(departmentStats) |->
           [departmentStats[i] EXCEPT
              !.roles = ComprehensiveRoles(rankings.rankings, roleStats,
                                           departmentStats[i].departmentSlug)]]]


\* ---- updateKpiEntry (one task step: no other request runs in between) ------
\* mutant: the merged values are written before they are validated
UpdateKpiEntryWriteFirst(p, id, payload) ==
  /\ task[p].op = "idle"
  /\ UNCHANGED kpiRefOf
  /\ IF id \notin 1..Len(store)
     THEN /\ task' = [task EXCEPT ![p] = DoneFor("update", id, FALSE, "KPI entry not found")]
          /\ UNCHANGED store
     ELSE LET merged == MergedValues(store[id].values, payload.values)
              written == [i \in 1..Len(merged) |->
                            [name |-> merged[i].name, value |-> merged[i].value,
                             score |-> 0]]
          IN /\ store' = [store EXCEPT ![id].values = written,
                                       ![id].totalScore = 0,
                                       ![id].status = "initiated"]
             /\ task' = [task EXCEPT ![p] =
                           DoneFor("update", id,
                                   /\ TemplateExists(store[id].templateId)
                                   /\ validateTemplateItems(Templates[store[id].templateId], merged)
                                   /\ validateAndCalculateScores(Templates[store[id].templateId], merged).ok,
                                   "")]

UpdateKpiEntry(p, id, payload) ==
  /\ task[p].op = "idle"
  /\ UNCHANGED kpiRefOf
  /\ IF payload.hasValues
     THEN IF id \notin 1..Len(store)
          THEN /\ task' = [task EXCEPT ![p] = DoneFor("update", id, FALSE, "KPI entry not found")]
               /\ UNCHANGED store
          ELSE IF ~TemplateExists(store[id].templateId)
          THEN /\ task' = [task EXCEPT ![p] = DoneFor("update", id, FALSE, "KPI template not found")]
               /\ UNCHANGED store
          ELSE LET template == Templates[store[id].templateId]
                   merged == MergedValues(store[id].values, payload.values)
                   scored == validateAndCalculateScores(template, merged)
               IN IF ~validateTemplateItems(template, merged)
                  THEN /\ task' = [task EXCEPT ![p] = DoneFor("update", id, FALSE, "Invalid KPI items")]
                       /\ UNCHANGED store
                  ELSE IF ~scored.ok
                  THEN /\ task' = [task EXCEPT ![p] = DoneFor("update", id, FALSE, scored.error)]
                       /\ UNCHANGED store
                  ELSE /\ store' = [store EXCEPT
                                      ![id].values = scored.values,
                                      ![id].totalScore = SumScores(scored.values),
                                      ![id].status = UpdatedStatus(@, payload)]
                       /\ task' = [task EXCEPT ![p] = DoneFor("update", id, TRUE, "")]
     ELSE IF id \notin 1..Len(store)
          THEN /\ task' = [task EXCEPT ![p] = DoneFor("update", id, TRUE, "")]
               /\ UNCHANGED store
          ELSE /\ store' = [store EXCEPT
                              ![id].totalScore = IF payload.hasTotalScore
                                                 THEN payload.totalScore ELSE @,
                              ![id].status = UpdatedStatus(@, payload)]
               /\ task' = [task EXCEPT ![p] = DoneFor("update", id, TRUE, "")]

\* ---- updateKpiEntryStatus / bulkUpdateStatus -------------------------------
UpdateKpiEntryStatus(p, id, status) ==
  /\ task[p].op = "idle"
  /\ UNCHANGED kpiRefOf
  /\ task' = [task EXCEPT ![p] =
                [DoneFor("status", id, TRUE, "") EXCEPT !.status = status]]
  /\ IF id \in 1..Len(store)
     THEN store' = [store EXCEPT ![id].status = status]
     ELSE UNCHANGED store

BulkUpdateStatus(p, ids, status) ==
  /\ task[p].op = "idle"
  /\ UNCHANGED kpiRefOf
  /\ task' = [task EXCEPT ![p] =
                [Done("bulkStatus", TRUE, "") EXCEPT !.status = status]]
  /\ store' = [i \in 1..Len(store) |->
                 IF i \in ids THEN [store[i] EXCEPT !.status = status]
                 ELSE store[i]]

\* ---- generateMonthlyReport -------------------------------------------------
Departments == {"collector-office", "revenue-department"}

\* the find(query) of generateMonthlyReport; department "" is absent
ReportCandidate(e, m, y, department) ==
  /\ e.month = m /\ e.year = y
  /\ e.status \in {"created", "initiated"}
  /\ department # "" =>
       /\ TemplateExists(e.templateId)
       /\ Templates[e.templateId].departmentSlug = department

\* mutant: an entry without values is marked generated too
ReportUpdatesWithoutValues(e) == TemplateExists(e.templateId)

ReportUpdates(e) == TemplateExists(e.templateId) /\ Len(e.values) > 0

GenerateMonthlyReport(p, m, y, department) ==
  /\ task[p].op = "idle"
  /\ UNCHANGED kpiRefOf
  /\ LET cand == {i \in 1..Len(store) : ReportCandidate(store[i], m, y, department)}
         upd == {i \in cand : ReportUpdates(store[i])}
     IN /\ store' = [i \in 1..Len(store) |->
                       IF i \in upd THEN [store[i] EXCEPT !.status = "generated"]
                       ELSE store[i]]
        /\ task' = [task EXCEPT ![p] =
                      [Done("report", TRUE, "") EXCEPT
                         !.month = m, !.year = y,
                         !.report = [totalEntries |-> Cardinality(cand),
                                     updatedEntries |-> Cardinality(upd),
                                     skippedEntries |-> Cardinality(cand \ upd),
                                     department |-> department]]]

\* ---- the rankings request --------------------------------------------------
GetEmployeeRankings(p, f) ==
  /\ task[p].op = "idle"
  /\ task' = [task EXCEPT ![p] =
                [Done("rankings", TRUE, "") EXCEPT
                   !.ranked = getEmployeeRankings(store, f)]]
  /\ UNCHANGED <<kpiRefOf, store>>

GetDepartmentStatistics(p, f) ==
  /\ task[p].op = "idle"
  /\ task' = [task EXCEPT ![p] =
                [Done("departments", TRUE, "") EXCEPT
                   !.stats = [kind |-> "departments",
                              departments |-> getDepartmentStatistics(store, f)]]]
  /\ UNCHANGED <<kpiRefOf, store>>

GetComprehensiveStatistics(p, f) ==
  /\ task[p].op = "idle"
  /\ task' = [task EXCEPT ![p] =
                [Done("comprehensive", TRUE, "") EXCEPT
                   !.stats = [kind |-> "comprehensive",
                              overall |-> getComprehensiveStatistics(store, f).overall,
                              departments |->
                                getComprehensiveStatistics(store, f).departments]]]
  /\ UNCHANGED <<kpiRefOf, store>>

\* getTop5Percent / getBottom5Percent up to the await of the rankings
CohortStart(p, op, f) ==
  /\ task[p].op = "idle"
  /\ op \in {"top5", "bottom5"}
  /\ task' = [task EXCEPT ![p] =
                [IdleTask EXCEPT !.op = op, !.pc = "ranked",
                                 !.ranked = StatsRankings(store, f)]]
  /\ UNCHANGED <<kpiRefOf, store>>

\* ... and from the rankings response to the result
CohortFinish(p) ==
  /\ task[p].pc = "ranked"
  /\ task[p].op \in {"top5", "bottom5"}
  /\ task' = [task EXCEPT ![p] =
                [Done(task[p].op, TRUE, "") EXCEPT
                   !.ranked = [task[p].ranked EXCEPT !.rankings = <<>>],
                   !.stats = IF task[p].op = "top5"
                             THEN Top5PercentOf(task[p].ranked)
                             ELSE Bottom5PercentOf(task[p].ranked)]]
  /\ UNCHANGED <<kpiRefOf, store>>

\* ------------------------------------------------------------ specification
\* The entry lifecycle with requests served one at a time: a request starts
\* only when none is in flight.
LifecycleBatches == {<<r>> : r \in {c \in CsvRecords : c.officerName = "A"}}

Next ==
  \/ \E cf \in Users : AllIdle /\ CreateCheck(1, 1, "t1", cf)
  \/ CreateInsert(1)
  \/ \E csv \in LifecycleBatches : AllIdle /\ MigrateStart(1, csv, 1, "t1")
  \/ MigrateCheck(1)
  \/ \E saveOk \in BOOLEAN : MigrateSave(1, saveOk)
  \/ \E id \in 1..(Len(store) + 1), payload \in UpdatePayloads :
       AllIdle /\ UpdateKpiEntry(1, id, payload)
  \/ \E id \in 1..(Len(store) + 1), st \in Statuses :
       AllIdle /\ UpdateKpiEntryStatus(1, id, st)
  \/ \E ids \in SUBSET (1..Len(store)), st \in Statuses :
       AllIdle /\ BulkUpdateStatus(1, ids, st)
  \/ \E m \in Months, department \in Departments \cup {""} :
       AllIdle /\ GenerateMonthlyReport(1, m, Year, department)
  \/ \E f \in RankingFilters : AllIdle /\ GetEmployeeRankings(1, f)
  \/ Return(1)

Spec == Init /\ [][Next]_vars

\* Creation and migration only, one request at a time, over every directory
\* and every batch.
NextMig ==
  \/ AllIdle /\ \E m \in Months, tid \in {"t1", NoTemplateId},
                     cf \in Users \cup {UnknownUser} : CreateCheck(1, m, tid, cf)
  \/ CreateInsert(1)
  \/ AllIdle /\ \E csv \in CsvBatches, tid \in {"t1", NoTemplateId} :
                  MigrateStart(1, csv, 1, tid)
  \/ MigrateAgain(1)
  \/ MigrateCheck(1)
  \/ \E saveOk \in BOOLEAN : MigrateSave(1, saveOk)
  \/ Return(1)

SpecMig == InitMig /\ [][NextMig]_vars


\* Two requests in flight: each task starts a request whenever it is idle,
\* and the tasks interleave at their suspension points.
ConcBatches ==
  { <<CsvRecord("A", "", <<Kv("disposal", 95)>>)>>,
    <<CsvRecord("A", "c1", <<Kv("disposal", 60)>>)>> }

NextConc ==
  \E p \in Tasks :
    \/ CreateCheck(p, 1, "t1", "u1")
    \/ CreateInsert(p)
    \/ \E csv \in ConcBatches : MigrateStart(p, csv, 1, "t1")
    \/ MigrateCheck(p)
    \/ \E saveOk \in BOOLEAN : MigrateSave(p, saveOk)
    \/ Return(p)

SpecConc == Init /\ [][NextConc]_vars

\* Rankings over stores of generated and not yet generated entries of three
\* employees.
MaxStatEntries == 3
StatEmployees == {"u1", "u2", "u3"}

ScoredEntry(cf, tid, st, kvs) ==
  LET scored == validateAndCalculateScores(Templates[tid], kvs).values
  IN NewEntry(1, Year, tid, Ref("court", "c1"), scored, st,
              SumScores(scored), cf)

StatEntries ==
  UNION { { ScoredEntry(cf, "t1", "generated", <<Kv("disposal", 95)>>),
            ScoredEntry(cf, "t1", "generated", <<Kv("disposal", 60)>>),
            ScoredEntry(cf, "t2", "generated", <<Kv("disposal", 95)>>),
            ScoredEntry(cf, "t1", "initiated", <<Kv("disposal", 95)>>) }
          : cf \in StatEmployees }

InitStats ==
  /\ kpiRefOf = [u \in Users |-> <<Ref("court", "c1")>>]
  /\ store \in UNION { [1..n -> StatEntries] : n \in 0..MaxStatEntries }
  /\ task = [p \in Tasks |-> IdleTask]

NextStats ==
  \/ \E f \in RankingFilters : AllIdle /\ GetEmployeeRankings(1, f)
  \/ Return(1)

SpecStats == InitStats /\ [][NextStats]_vars

\* Paginated rankings: every page and page size over the same stores.
MaxLimit == 3
MaxPage == 3

PageFilters ==
  { Filters(0, 0, {}, {}, {}, {}, limit, page) :
      limit \in 1..MaxLimit, page \in 1..MaxPage }

NextPage ==
  \/ \E f \in PageFilters : AllIdle /\ GetEmployeeRankings(1, f)
  \/ Return(1)

SpecPage == InitStats /\ [][NextPage]_vars

\* Top and bottom 5 percent over stores of n employees, one generated entry
\* each, the first with the best percentage and the last with the worst.
\* Small stores are ranked by the request itself; for the stores larger than
\* StatsLimit the run starts at the await, with the rankings response.
MaxSmallCohort == 22
LargeCohorts == {StatsLimit, StatsLimit + 1, StatsLimit + 20}

CohortStore(n) ==
  [i \in 1..n |->
     ScoredEntry(i, "t1", "generated",
                 <<Kv("disposal", IF i = 1 THEN 95 ELSE IF i = n THEN 40 ELSE 60)>>)]

CohortFilters == Filters(0, 0, {}, {}, {}, {}, DefaultLimit, 1)

\* the ranked employees of a store that holds one matching generated entry
\* per employee in non-increasing percentage: the grouping and the stable
\* sort keep the store's order
RankedInOrder(s, f) ==
  AddRanks([i \in 1..Len(s) |-> AddEntryScore(<<>>, s[i], f)[1]])

InitCohort ==
  /\ kpiRefOf = [u \in Users |-> <<Ref("court", "c1")>>]
  /\ \/ /\ store \in {CohortStore(n) : n \in 0..MaxSmallCohort}
        /\ task = [p \in Tasks |-> IdleTask]
     \/ /\ store \in {CohortStore(n) : n \in LargeCohorts}
        /\ \E op \in {"top5", "bottom5"} :
             task = [p \in Tasks |->
                       IF p = 1
                       THEN [IdleTask EXCEPT
                               !.op = op, !.pc = "ranked",
                               !.ranked =
                                 Paginate(RankedInOrder(store, CohortFilters),
                                          [CohortFilters EXCEPT !.limit = StatsLimit])]
                       ELSE IdleTask]

NextCohort ==
  \/ \E op \in {"top5", "bottom5"} : AllIdle /\ CohortStart(1, op, CohortFilters)
  \/ CohortFinish(1)

SpecCohort == InitCohort /\ [][NextCohort]_vars

\* Department and comprehensive statistics over employees of two
\* departments, where one role occurs in both.
DeptEntries ==
  { ScoredEntry(cf, tid, "generated", <<Kv("disposal", v)>>) :
      cf \in StatEmployees, tid \in TemplateIds, v \in {95, 60} }

InitDept ==
  /\ kpiRefOf = [u \in Users |-> <<Ref("court", "c1")>>]
  /\ store \in UNION { [1..n -> DeptEntries] : n \in 0..MaxStatEntries }
  /\ task = [p \in Tasks |-> IdleTask]

NextDept ==
  \/ AllIdle /\ GetDepartmentStatistics(1, CohortFilters)
  \/ AllIdle /\ GetComprehensiveStatistics(1, CohortFilters)
  \/ Return(1)

SpecDept == InitDept /\ [][NextDept]_vars

\* ---- validateAndCalculateScores as a function of its arguments -------------
\* A template with one item of every kpiType, and one item whose kpiType
\* is none of the five; the percentage item's threshold rules are authored
\* in every order.
MaxValues == 2

ScoreRules == {ThresholdRule(50, 5), ThresholdRule(70, 7), ThresholdRule(90, 10)}

ScoreRuleLists ==
  {r \in [1..Cardinality(ScoreRules) -> ScoreRules] : \A i, j \in DOMAIN r : i # j => r[i] # r[j]}
  \cup { <<>>, <<ThresholdRule(90, 10)>> }

ItemPct(rules) ==
  [name |-> "pct", maxMarks |-> 10, kpiType |-> "percentage", scoringRules |-> rules]
ItemPoints ==
  [name |-> "points", maxMarks |-> 20, kpiType |-> "score", scoringRules |-> <<>>]
ItemCount ==
  [name |-> "count", maxMarks |-> 5, kpiType |-> "quantitative",
   scoringRules |-> <<RangeRule(0, 10, 5)>>]
ItemDone ==
  [name |-> "done", maxMarks |-> 5, kpiType |-> "binary",
   scoringRules |-> <<ExactRule(Str("yes"), 5)>>]
ItemRemark ==
  [name |-> "remark", maxMarks |-> 5, kpiType |-> "qualitative",
   scoringRules |-> <<ExactRule(Str("good"), 5)>>]
ItemRating ==
  [name |-> "rating", maxMarks |-> 5, kpiType |-> "rating", scoringRules |-> <<>>]

ScoreTemplate(rules) ==
  [name |-> "Scoring", departmentSlug |-> "collector-office", role |-> RoleCollector,
   template |-> <<ItemPct(rules), ItemPoints, ItemCount, ItemDone, ItemRemark,
                  ItemRating>>]

ScoreTemplates == { ScoreTemplate(rules) : rules \in ScoreRuleLists }

NamedValue(n, v) == [name |-> n, value |-> v]

SubmittedValues ==
  { NamedValue("pct", Num(v)) : v \in {-1, 0, 40, 50, 75, 90, 96, 100, 101} }
  \cup { NamedValue("points", Num(v)) : v \in {-1, 15, 20, 25} }
  \cup { NamedValue("count", Num(v)) : v \in {-1, 3} }
  \cup { NamedValue("pct", Str("high")),
         NamedValue("done", Str("yes")), NamedValue("done", Num(1)),
         NamedValue("remark", Str("good")),
         NamedValue("rating", Num(1)), NamedValue("bonus", Num(1)) }

SubmittedLists == UNION { [1..n -> SubmittedValues] : n \in 1..MaxValues }

\* const scored = validateAndCalculateScores(template, values)
ValidateAndCalculateScores(p, template, values) ==
  /\ task[p].op = "idle"
  /\ LET r == validateAndCalculateScores(template, values)
     IN task' = [task EXCEPT ![p] =
                   [Done("score", r.ok, r.error) EXCEPT
                      !.args = [template |-> template, values |-> values],
                      !.scored = r.values]]
  /\ UNCHANGED <<kpiRefOf, store>>

NextScore ==
  \/ AllIdle /\ \E template \in ScoreTemplates, values \in SubmittedLists :
                  ValidateAndCalculateScores(1, template, values)
  \/ Return(1)

SpecScore == Init /\ [][NextScore]_vars

\* ---- parseCsvData ----------------------------------------------------------
\* A CSV is the list of its lines, a line the list of its cells after
\* split(','). A cell is Str(text), or Num(n) when its text is the
\* numeral n, so that parseInt and the emptiness tests can be computed.
\* KPI and header names are written in Latin letters.
MaxRows == 2

NoValue == -1

\* Object.keys(csvParserConfigs[...].kpiMappings), in their order
SdmKpis ==
  <<"vyapavartan", "abhilekh durusti", "appeal nirakaran", "kul prakaran nirakaran",
    "jati pramanpatra", "nirikshan", "RBC 6(4)", "TL/jandarshan/PG">>
TehsildarKpis ==
  <<"khata vibhajan", "namantaran", "simankan", "vividh rajasva", "kul nirakaran",
    "jati pramanpatra", "avaidh utkhanan", "aar bee see 6 (4)", "TL/jandarshan/lok seva">>

\* this.csvParserConfigs[`${departmentSlug}-${role}`]
HasParserConfig(departmentSlug, role) ==
  departmentSlug = "revenue-department" /\ role \in {"sdm", "tehsildar"}

ConfigKpis(departmentSlug, role) == IF role = "sdm" THEN SdmKpis ELSE TehsildarKpis

\* Array.prototype.indexOf / findIndex: 0-based, -1 when absent
IndexOf(seq, x) ==
  IF \E i \in 1..Len(seq) : seq[i] = x
  THEN (CHOOSE i \in 1..Len(seq) : seq[i] = x /\ \A j \in 1..(i-1) : seq[j] # x) - 1
  ELSE -1

\* normalizeHeader over headerNormalizations: the standard header, "" for
\* null. Two names stand under another KPI's standard header, one has no
\* entry, "officer" is a variation of the officer column.
StandardHeader(header) ==
  IF header = "kul prakaran nirakaran" THEN ""
  ELSE IF header = "RBC 6(4)" THEN "aar bee see 6 (4)"
  ELSE IF header = "TL/jandarshan/lok seva" THEN "TL/jandarshan/PG"
  ELSE IF header = "officer" THEN "officer"
  ELSE IF IndexOf(SdmKpis, header) >= 0 \/ IndexOf(TehsildarKpis, header) >= 0
       THEN header
       ELSE ""

\* findBestHeaderMatch: the first non-empty header whose standard header
\* is the target's, "" for null (unlike names are less than 0.7 similar)
MatchedHeader(targetHeader, headers) ==
  LET normalizedTarget == StandardHeader(targetHeader)
      hit(i) == /\ ~headers[i].isNum
                /\ headers[i].str # ""
                /\ normalizedTarget # ""
                /\ StandardHeader(headers[i].str) = normalizedTarget
      hits == {i \in 1..Len(headers) : hit(i)}
  IN IF hits # {}
     THEN headers[CHOOSE i \in hits : \A j \in hits : i <= j].str
     ELSE ""

\* values[index]?.trim(): the empty text when the line has no such cell
ValueAt(values, index) ==
  IF index + 1 \in 1..Len(values) THEN values[index + 1] ELSE Str("")

\* mutant: the percentage is rounded but not capped
RoundedPercentageUncapped(disposed, registered) ==
  (2 * disposed * 10000 + registered) \div (2 * registered)

\* Math.round(Math.min(disposed / registered * 100, 100) * 100) / 100,
\* in hundredths of a percent
RoundedPercentage(disposed, registered) ==
  IF disposed >= registered THEN 10000
  ELSE (2 * disposed * 10000 + registered) \div (2 * registered)

\* the percentage of the registered and disposed cells at baseIndex and
\* baseIndex + 1, NoValue for null
PercentageAt(values, baseIndex) ==
  LET registeredValue == ValueAt(values, baseIndex)
      disposedValue == ValueAt(values, baseIndex + 1)
  IN IF /\ registeredValue # Str("") /\ disposedValue # Str("")
        /\ registeredValue.isNum /\ disposedValue.isNum
        /\ registeredValue.num > 0
     THEN RoundedPercentage(disposedValue.num, registeredValue.num)
     ELSE NoValue

\* extractPercentageWithMapping: configKey is 'revenue-department-tehsildar'
\* whatever the request's department and role
extractPercentageWithMapping(values, headers, kpiName, departmentSlug, role) ==
  LET kpiIndexInSequence == IndexOf(TehsildarKpis, kpiName)
  IN IF kpiIndexInSequence = -1 THEN NoValue
     ELSE PercentageAt(values, 2 + kpiIndexInSequence * 3)

\* kpiValues of one line: the mapped KPIs of the configuration, in its
\* order, that have a value
RECURSIVE KpiValuesOf(_, _, _, _, _)
KpiValuesOf(kpis, values, headers, departmentSlug, role) ==
  IF kpis = <<>> THEN <<>>
  ELSE LET kpiName == Head(kpis)
           value == extractPercentageWithMapping(values, headers, kpiName,
                                                 departmentSlug, role)
           rest == KpiValuesOf(Tail(kpis), values, headers, departmentSlug, role)
       IN IF MatchedHeader(kpiName, headers) # "" /\ value # NoValue
          THEN <<[name |-> kpiName, value |-> value]>> \o rest
          ELSE rest

\* the body of the loop over the lines: the records of lines[i..]
RECURSIVE ParseLines(_, _, _, _, _)
ParseLines(lines, i, officerNameIndex, departmentSlug, role) ==
  IF i > Len(lines) THEN <<>>
  ELSE LET values == lines[i]
           officerName == ValueAt(values, officerNameIndex)
           kpiValues == KpiValuesOf(ConfigKpis(departmentSlug, role), values, lines[1],
                                    departmentSlug, role)
           rest == ParseLines(lines, i + 1, officerNameIndex, departmentSlug, role)
       IN IF Len(values) < 2 \/ officerName = Str("") \/ kpiValues = <<>>
          THEN rest
          ELSE <<[officerName |-> officerName,
                  courtName |-> IF role = "tehsildar" THEN ValueAt(values, 1)
                                ELSE Str(""),
                  kpiValues |-> kpiValues]>> \o rest

\* for (let i = 1; i < lines.length; i++), lines counted from 1 here
FirstDataLine == 2

\* mutant: the configuration is looked up before the lines are read
parseCsvDataConfigFirst(lines, departmentSlug, role) ==
  IF ~HasParserConfig(departmentSlug, role)
  THEN [ok |-> FALSE, data |-> <<>>, error |-> "No CSV parser configuration found"]
  ELSE IF Len(lines) < 2 THEN [ok |-> FALSE, data |-> <<>>, error |-> "TypeError"]
  ELSE IF MatchedHeader("officer", lines[1]) = ""
  THEN [ok |-> FALSE, data |-> <<>>, error |-> "Could not find officer name column"]
  ELSE [ok |-> TRUE, error |-> "",
        data |-> ParseLines(lines, FirstDataLine,
                            IndexOf(lines[1], Str(MatchedHeader("officer", lines[1]))),
                            departmentSlug, role)]

\* parseCsvData: the records, or the Error thrown
parseCsvData(lines, departmentSlug, role) ==
  IF Len(lines) < 2 THEN [ok |-> FALSE, data |-> <<>>, error |-> "TypeError"]
  ELSE IF ~HasParserConfig(departmentSlug, role)
  THEN [ok |-> FALSE, data |-> <<>>, error |-> "No CSV parser configuration found"]
  ELSE IF MatchedHeader("officer", lines[1]) = ""
  THEN [ok |-> FALSE, data |-> <<>>, error |-> "Could not find officer name column"]
  ELSE [ok |-> TRUE, error |-> "",
        data |-> ParseLines(lines, FirstDataLine,
                            IndexOf(lines[1], Str(MatchedHeader("officer", lines[1]))),
                            departmentSlug, role)]

\* The CSVs: the header line of a configuration, a sub-header line of
\* column titles or one that looks like data, and up to MaxRows data lines.
Cells(officer, court, triple) ==
  LET width == 2 + 3 * Cardinality(DOMAIN triple)
  IN SubSeq([c \in 1..width |->
               IF c = 1 THEN officer ELSE IF c = 2 THEN court
               ELSE triple[(c - 3) \div 3][((c - 3) % 3) + 1]], 1, width)

HeaderLine(officerHeader, kpis) ==
  Cells(Str(officerHeader), Str("court"),
        [k \in 0..(Len(kpis) - 1) |-> <<Str(kpis[k + 1]), Str(""), Str("")>>])

SubHeaderLines(kpis) ==
  LET titles == [k \in 0..(Len(kpis) - 1) |->
                   <<Str("registered"), Str("disposed"), Str("pending")>>]
      counts == [k \in 0..(Len(kpis) - 1) |-> <<Num(10), Num(5), Num(5)>>]
  IN { Cells(Str(""), Str(""), titles),
       Cells(Str("name"), Str("court"), titles),
       Cells(Str("S"), Str("c0"), counts) }

DataLines(kpis) ==
  LET K == 0..(Len(kpis) - 1)
      same(t) == [k \in K |-> t]
      ascending == [k \in K |-> <<Num(100), Num(10 * (k + 1)), Num(100 - 10 * (k + 1))>>]
  IN { Cells(Str(o), Str("c1"), ascending) : o \in {"A", "B", ""} }
     \cup { Cells(Str("A"), Str("c1"), same(t)) :
              t \in { <<Num(100), Num(96), Num(4)>>, <<Num(3), Num(1), Num(2)>>,
                      <<Num(2), Num(3), Num(0)>>, <<Num(0), Num(0), Num(0)>>,
                      <<Num(-4), Num(2), Num(0)>>, <<Num(100), Num(-5), Num(105)>>,
                      <<Str("x"), Num(1), Num(0)>>, <<Num(10), Str("x"), Num(0)>>,
                      <<Num(10), Str(""), Num(0)>>, <<Str(""), Str(""), Str("")>> } }
     \cup { <<Str("A")>> }

ParseRequests ==
  { [departmentSlug |-> "revenue-department", role |-> "sdm"],
    [departmentSlug |-> "revenue-department", role |-> "tehsildar"],
    [departmentSlug |-> "collector-office", role |-> "collector"] }

CsvOf(officerHeader, kpis, sub, rows) ==
  <<HeaderLine(officerHeader, kpis), sub>> \o rows

\* const csvData = this.parseCsvData(csvContent, departmentSlug, role)
ParseCsvData(p, lines, departmentSlug, role) ==
  /\ task[p].op = "idle"
  /\ \E r \in {parseCsvData(lines, departmentSlug, role)} :
       task' = [task EXCEPT ![p] =
                   [Done("parse", r.ok, r.error) EXCEPT
                      !.args = [lines |-> lines, departmentSlug |-> departmentSlug,
                                role |-> role],
                      !.parsed = r.data]]
  /\ UNCHANGED <<kpiRefOf, store>>

NextParse ==
  \/ AllIdle /\ \E q \in ParseRequests :
       LET kpis == ConfigKpis(q.departmentSlug, q.role)
       IN \/ ParseCsvData(1, <<HeaderLine("officer", kpis)>>,
                          q.departmentSlug, q.role)
          \/ \E n \in 0..MaxRows, sub \in SubHeaderLines(kpis) :
               \E rows \in [1..n -> DataLines(kpis)] :
                 ParseCsvData(1, CsvOf("officer", kpis, sub, rows),
                              q.departmentSlug, q.role)
          \/ \E n \in 0..1, sub \in SubHeaderLines(kpis) :
               \E rows \in [1..n -> DataLines(kpis)] :
                 ParseCsvData(1, CsvOf("sn", kpis, sub, rows),
                              q.departmentSlug, q.role)
  \/ Return(1)

SpecParse == Init /\ [][NextParse]_vars

\* Rankings under every combination of inclusion and exclusion filters.
FilterEntries ==
  { ScoredEntry(cf, tid, "generated", <<Kv("disposal", 95)>>) :
      cf \in {"u1", "u2"}, tid \in TemplateIds }

InclusionFilters ==
  { Filters(0, 0, deps, roles, exDeps, exRoles, DefaultLimit, 1) :
      deps \in SUBSET {"collector-office", "revenue-department"},
      roles \in {{}, {<<"c">>}, {RoleTehsildar}, {<<"c">>, RoleTehsildar},
                 {<<"c", "o", "l", "x">>}},
      exDeps \in {{}, {"collector-office"}, {"revenue-department"}},
      exRoles \in {{}, {<<"c">>}, {RoleTehsildar}} }

InitFilter ==
  /\ kpiRefOf = [u \in Users |-> <<Ref("court", "c1")>>]
  /\ store \in UNION { [1..n -> FilterEntries] : n \in 0..MaxEntries }
  /\ task = [p \in Tasks |-> IdleTask]

NextFilter ==
  \/ AllIdle /\ \E f \in InclusionFilters : GetEmployeeRankings(1, f)
  \/ Return(1)

SpecFilter == InitFilter /\ [][NextFilter]_vars

\* Monthly reports over stores with entries of two periods, every status,
\* with and without values, and of a template that no longer exists.
ReportEntries ==
  { NewEntry(m, Year, tid, Ref("court", "c1"), vals, st, SumScores(vals), "u1") :
      m \in Months, tid \in {"t1", "t2", NoTemplateId}, st \in Statuses,
      vals \in {<<>>, <<[name |-> "disposal", value |-> Num(95), score |-> 10]>>} }

InitReport ==
  /\ kpiRefOf = [u \in Users |-> <<Ref("court", "c1")>>]
  /\ store \in UNION { [1..n -> ReportEntries] : n \in 0..MaxEntries }
  /\ task = [p \in Tasks |-> IdleTask]

NextReport ==
  \/ AllIdle /\ \E m \in Months, department \in Departments \cup {""} :
                  GenerateMonthlyReport(1, m, Year, department)
  \/ Return(1)

SpecReport == InitReport /\ [][NextReport]_vars

\* Updates over stores whose entries are of an existing and of a deleted
\* template, in every status, with and without stored values.
UpdateEntries ==
  { NewEntry(1, Year, tid, Ref("court", "c1"), vals, st, SumScores(vals), "u1") :
      tid \in {"t1", NoTemplateId}, st \in Statuses,
      vals \in {<<>>, <<[name |-> "disposal", value |-> Num(95), score |-> 10]>>} }

InitUpdate ==
  /\ kpiRefOf = [u \in Users |-> <<Ref("court", "c1")>>]
  /\ store \in UNION { [1..n -> UpdateEntries] : n \in 0..MaxEntries }
  /\ task = [p \in Tasks |-> IdleTask]

NextUpdate ==
  \/ AllIdle /\ \E id \in 1..(Len(store) + 1), payload \in UpdatePayloads :
                  UpdateKpiEntry(1, id, payload)
  \/ Return(1)

SpecUpdate == InitUpdate /\ [][NextUpdate]_vars

\* ---- header normalizer ------------------------------------------------------
\* Header texts are character sequences over a small alphabet with one
\* upper-case letter and the blank; a normalization table is the list of
\* Object.entries(normalizations): [standardHeader, variations] in
\* iteration order. The null result is "".
MaxHeaderLen == 3

HeaderChars == {"a", "b", "A", " "}

toLowerCase(s) == [i \in 1..Len(s) |-> IF s[i] = "A" THEN "a" ELSE s[i]]

trim(s) ==
  LET inked == {i \in 1..Len(s) : s[i] # " "}
  IN IF inked = {} THEN <<>>
     ELSE SubSeq(s, CHOOSE i \in inked : \A j \in inked : i <= j,
                    CHOOSE i \in inked : \A j \in inked : i >= j)

\* s.includes(sub)
includes(s, sub) ==
  \E i \in 0..(Len(s) - Len(sub)) : SubSeq(s, i + 1, i + Len(sub)) = sub

VariationScore(normalizedHeader, variation) ==
  LET variationLower == toLowerCase(variation)
  IN IF normalizedHeader = variationLower THEN 100
     ELSE IF \/ includes(normalizedHeader, variationLower)
             \/ includes(variationLower, normalizedHeader)
          THEN 50
          ELSE 0

NoBestMatch == [present |-> FALSE, standardHeader |-> "", score |-> 0]

\* mutant: a later variation of equal score replaces the best match
ReplacesBestMatchOnTie(score, bestMatch) ==
  score > 0 /\ (~bestMatch.present \/ score >= bestMatch.score)

\* score > 0 && (!bestMatch || score > bestMatch.score)
ReplacesBestMatch(score, bestMatch) ==
  score > 0 /\ (~bestMatch.present \/ score > bestMatch.score)

\* the inner loop over the variations of one standard header
RECURSIVE VariationsLoop(_, _, _, _)
VariationsLoop(normalizedHeader, standardHeader, variations, bestMatch) ==
  IF variations = <<>> THEN bestMatch
  ELSE LET score == VariationScore(normalizedHeader, Head(variations))
       IN VariationsLoop(normalizedHeader, standardHeader, Tail(variations),
            IF ReplacesBestMatch(score, bestMatch)
            THEN [present |-> TRUE, standardHeader |-> standardHeader,
                  score |-> score]
            ELSE bestMatch)

\* the outer loop over Object.entries(normalizations)
RECURSIVE EntriesLoop(_, _, _)
EntriesLoop(normalizedHeader, entries, bestMatch) ==
  IF entries = <<>> THEN bestMatch
  ELSE EntriesLoop(normalizedHeader, Tail(entries),
         VariationsLoop(normalizedHeader, Head(entries).standardHeader,
                        Head(entries).variations, bestMatch))

normalizeHeader(header, normalizations) ==
  LET normalizedHeader == toLowerCase(trim(header))
      bestMatch == EntriesLoop(normalizedHeader, normalizations, NoBestMatch)
  IN IF bestMatch.present THEN bestMatch.standardHeader ELSE ""

Entry(standardHeader, variations) ==
  [standardHeader |-> standardHeader, variations |-> variations]

HeaderTexts == UNION { [1..n -> HeaderChars] : n \in 0..MaxHeaderLen }

\* Tables with one text under two headers (exact under both, exact under
\* the later one only, contained under both), a variation with a blank,
\* a header without variations, and the empty table.
NormalizationTables ==
  { <<>>,
    <<Entry("k1", <<<<"a">>>>), Entry("k2", <<<<"a", "b">>, <<"A">>>>)>>,
    <<Entry("k1", <<<<"a", "b">>>>), Entry("k2", <<<<"a">>>>)>>,
    <<Entry("k1", <<<<"b", "a">>, <<"a", "b">>>>), Entry("k2", <<<<"A", "b">>, <<"b", "b">>>>)>>,
    <<Entry("k1", <<>>), Entry("k2", <<<<" ", "a">>, <<"b">>>>)>>,
    <<Entry("k1", <<<<"b", " ", "a">>>>), Entry("k2", <<<<"b", " ", "A">>>>),
      Entry("k3", <<<<"a", "a">>>>)>> }

NormalizeHeader(p, header, normalizations) ==
  /\ task[p].op = "idle"
  /\ task' = [task EXCEPT ![p] =
                [Done("normalize", TRUE, "") EXCEPT
                   !.args = [header |-> header, normalizations |-> normalizations],
                   !.matched = [NoMapping EXCEPT
                      !.normalizedHeader = normalizeHeader(header, normalizations)]]]
  /\ UNCHANGED <<kpiRefOf, store>>

NextNormalize ==
  \/ AllIdle /\ \E header \in HeaderTexts, normalizations \in NormalizationTables :
                  NormalizeHeader(1, header, normalizations)
  \/ Return(1)

SpecNormalize == Init /\ [][NextNormalize]_vars

\* ---- fuzzy matcher ----------------------------------------------------------
MaxHeaders == 2

\* one row of the matrix, left to right: row[i + 1] is matrix[j][i] and
\* above[i + 1] is matrix[j - 1][i]
RECURSIVE FillRow(_, _, _, _, _)
FillRow(str1, str2, j, above, row) ==
  IF Len(row) = Len(str1) + 1 THEN row
  ELSE LET i == Len(row)
           indicator == IF str1[i] = str2[j] THEN 0 ELSE 1
       IN FillRow(str1, str2, j, above,
                  Append(row, Min(row[i] + 1,
                                  Min(above[i + 1] + 1, above[i] + indicator))))

RECURSIVE FillMatrix(_, _, _, _)
FillMatrix(str1, str2, j, above) ==
  IF j > Len(str2) THEN above[Len(str1) + 1]
  ELSE FillMatrix(str1, str2, j + 1, FillRow(str1, str2, j, above, <<j>>))

levenshteinDistance(str1, str2) ==
  FillMatrix(str1, str2, 1, [i \in 1..(Len(str1) + 1) |-> i - 1])

calculateSimilarity(str1, str2) ==
  LET longer == IF Len(str1) > Len(str2) THEN str1 ELSE str2
      shorter == IF Len(str1) > Len(str2) THEN str2 ELSE str1
  IN IF Len(longer) = 0 THEN Fraction(1, 1)
     ELSE Fraction(Len(longer) - levenshteinDistance(longer, shorter), Len(longer))

\* a > b on fractions with positive denominators
GreaterThan(a, b) == a.num * b.den > b.num * a.den

FuzzyThreshold == Fraction(7, 10)

\* normalizedHeader && this.calculateSimilarity(header, targetHeader) > 0.7
IsFuzzyMatch(header, targetHeader, normalizedHeader) ==
  /\ normalizedHeader # ""
  /\ GreaterThan(calculateSimilarity(header, targetHeader), FuzzyThreshold)

\* the loop over availableHeaders; bestMatch.confidence is highestConfidence
RECURSIVE HeadersLoop(_, _, _, _, _)
HeadersLoop(targetHeader, normalizedTarget, headers, normalizations, bestMatch) ==
  IF headers = <<>> THEN bestMatch
  ELSE LET header == Head(headers)
           normalizedHeader == normalizeHeader(header, normalizations)
           confidence == IF normalizedHeader = normalizedTarget
                         THEN Fraction(1, 1)
                         ELSE calculateSimilarity(header, targetHeader)
           candidate ==
             /\ trim(header) # <<>>
             /\ \/ normalizedHeader = normalizedTarget
                \/ IsFuzzyMatch(header, targetHeader, normalizedHeader)
       IN HeadersLoop(targetHeader, normalizedTarget, Tail(headers), normalizations,
            IF candidate /\ GreaterThan(confidence, bestMatch.confidence)
            THEN [found |-> TRUE, originalHeader |-> header,
                  normalizedHeader |-> normalizedHeader,
                  confidence |-> confidence]
            ELSE bestMatch)

findBestHeaderMatch(targetHeader, availableHeaders, normalizations) ==
  LET normalizedTarget == normalizeHeader(targetHeader, normalizations)
  IN IF normalizedTarget = "" THEN NoMapping
     ELSE HeadersLoop(targetHeader, normalizedTarget, availableHeaders,
                      normalizations, NoMapping)

\* Texts one edit apart, in another case, blank, and a part of another.
MatchTexts ==
  { <<>>, <<" ">>, <<"a", "b">>,
    <<"a", "b", "a", "b">>, <<"A", "b", "a", "b">>,
    <<"a", "b", "b", "b">>, <<"a", "b", "a", "a">>, <<"b", "b", "b", "b">> }

\* "abbb" has no standard header in the first table and stands under
\* another standard header than "abab" in the second.
MatchTables ==
  { <<Entry("k1", <<<<"a", "b", "a", "b">>>>), Entry("k2", <<<<"b", "b", "b", "b">>>>)>>,
    <<Entry("k1", <<<<"a", "b", "a", "b">>>>), Entry("k2", <<<<"b", "b", "b">>>>)>> }

FindBestHeaderMatch(p, targetHeader, availableHeaders, normalizations) ==
  /\ task[p].op = "idle"
  /\ task' = [task EXCEPT ![p] =
                [Done("match", TRUE, "") EXCEPT
                   !.args = [targetHeader |-> targetHeader,
                             availableHeaders |-> availableHeaders,
                             normalizations |-> normalizations],
                   !.matched = findBestHeaderMatch(targetHeader, availableHeaders,
                                                   normalizations)]]
  /\ UNCHANGED <<kpiRefOf, store>>

NextMatch ==
  \/ AllIdle /\ \E targetHeader \in MatchTexts, normalizations \in MatchTables :
                  \E availableHeaders \in
                       UNION { [1..n -> MatchTexts] : n \in 0..MaxHeaders } :
                    FindBestHeaderMatch(1, targetHeader, availableHeaders,
                                        normalizations)
  \/ Return(1)

SpecMatch == Init /\ [][NextMatch]_vars

\* =================================================================== claims
Counted(r) == r.successfulEntries + r.failedEntries + r.skippedEntries

KeyOf(e) == <<e.createdFor, e.month, e.year, e.templateId, e.kpiRef.value>>

UniqueKeys(s) ==
  \A i, j \in 1..Len(s) : i # j => KeyOf(s[i]) # KeyOf(s[j])

\* C1: while a migration runs every processed record has been counted in
\* exactly one of successfulEntries, failedEntries and skippedEntries, and the
\* MigrationResult it returns satisfies totalRecords = successfulEntries +
\* failedEntries + skippedEntries (the empty batch returns all zeros).
C1_CountsAddUp ==
  \A p \in Tasks :
    task[p].op = "migrate" /\ task[p].ok =>
      LET t == task[p] IN
        /\ t.result.totalRecords = Len(t.csv)
        /\ t.pc \in {"check", "save"} => Counted(t.result) = t.idx - 1
        /\ t.pc = "done" => t.result.totalRecords = Counted(t.result)

C1_Witness ==
  /\ task[1].op = "migrate" /\ task[1].pc = "done"
  /\ task[1].result.totalRecords = 2
  /\ task[1].result.skippedEntries = 1
  /\ task[1].result.successfulEntries + task[1].result.failedEntries = 1

\* C2: after any sequence of createKpiEntry and migrateCsvData requests run
\* one at a time, no two stored entries share
\* (createdFor, month, year, templateId, kpiRef.value).
C2_UniqueEntryPerKey == UniqueKeys(store)

\* C4 (as claimed): a second migration with the arguments of the one that
\* just finished returns skippedEntries = totalRecords and inserts nothing.
C4_RerunSkipsAll ==
  task[1].op = "migrate" /\ task[1].pc = "done" /\ task[1].rerun =>
    /\ task[1].result.skippedEntries = task[1].result.totalRecords
    /\ Len(store) = task[1].startLen

\* C4 (amended): the second run skips at least the records the first run
\* created or skipped; when the first run had no failed record the second
\* run returns skippedEntries = totalRecords, successfulEntries =
\* failedEntries = 0 and inserts no document.
C4_RerunSkipsWhatWasDone ==
  task[1].op = "migrate" /\ task[1].pc = "done" /\ task[1].rerun =>
    LET r == task[1].result
        first == task[1].prev
    IN /\ r.totalRecords = first.totalRecords
       /\ r.skippedEntries >= first.successfulEntries + first.skippedEntries
       /\ first.failedEntries = 0 =>
            /\ r.skippedEntries = r.totalRecords
            /\ r.successfulEntries = 0
            /\ r.failedEntries = 0
            /\ Len(store) = task[1].startLen

C4_Witness ==
  /\ task[1].op = "migrate" /\ task[1].pc = "done" /\ task[1].rerun
  /\ task[1].prev.successfulEntries = 2
  /\ task[1].result.skippedEntries = 2

\* the record at hand fails validation under the batch's template
RecordInvalid(t) ==
  ~validateAndCalculateScores(Templates[t.templateId],
                              t.csv[t.idx].kpiValues).ok

\* C5: when the scoring or the save of a record raises, failedEntries grows
\* by one, one message is appended to errors, the other counters and the
\* store stay as they were, and the batch goes on with the next record (or
\* returns the result when it was the last).
C5_FailureIsIsolated ==
  [][\A p \in Tasks :
       ( /\ task[p].op = "migrate" /\ task[p].pc = "save"
         /\ task'[p] # task[p]
         /\ RecordInvalid(task[p]) \/ store' = store )
       => LET t == task[p]
              u == task'[p]
          IN /\ store' = store
             /\ u.result.failedEntries = t.result.failedEntries + 1
             /\ Len(u.result.errors) = Len(t.result.errors) + 1
             /\ u.result.successfulEntries = t.result.successfulEntries
             /\ u.result.skippedEntries = t.result.skippedEntries
             /\ u.idx = t.idx + 1
             /\ u.pc = IF t.idx < Len(t.csv) THEN "check" ELSE "done"]_vars

C5_Witness ==
  /\ task[1].op = "migrate" /\ task[1].pc = "check" /\ task[1].idx = 2
  /\ task[1].result.failedEntries = 1
  /\ Len(task[1].result.errors) = 1


\* the task's pre-check, evaluated again on the store as it is now, would
\* refuse the insert the task is about to make
StaleCreate(t) ==
  ExistsEntry(store, t.createdFor, t.month, t.year, t.templateId)

StaleSave(t) == PreCheck(t, store) # ""

\* C3: nothing at the store layer stops a task whose existence pre-check has
\* gone stale: the insert of a createKpiEntry that another request overtook
\* still adds all its documents, and the save of a migration record that
\* another request overtook still adds its document unless the save itself
\* fails; two entries with one key are then in the store.
C3_StaleCheckStillInserts ==
  [][\A p \in Tasks :
       /\ ( /\ task[p].op = "create" /\ task[p].pc = "insert"
            /\ task'[p] # task[p]
            /\ StaleCreate(task[p]) )
          => /\ task'[p].ok
             /\ Len(store') = Len(store) + Len(kpiRefOf[task[p].createdFor])
             /\ ~UniqueKeys(store')
       /\ ( /\ task[p].op = "migrate" /\ task[p].pc = "save"
            /\ task'[p] # task[p]
            /\ StaleSave(task[p]) )
          => \/ Len(store') = Len(store) + 1 /\ ~UniqueKeys(store')
             \/ /\ store' = store
                /\ task'[p].result.failedEntries
                     = task[p].result.failedEntries + 1]_vars

C3_Witness ==
  /\ Len(store) = 2
  /\ KeyOf(store[1]) = KeyOf(store[2])
  /\ {store[1].status, store[2].status} = {"created", "generated"}
  /\ \A p \in Tasks : task[p].pc = "done" /\ task[p].ok


\* C6 (as claimed): updateKpiEntry never changes the status of an entry.
C6_UpdateKeepsStatus ==
  [][task[1].op = "idle" /\ task'[1].op = "update" =>
       \A i \in 1..Len(store) : store'[i].status = store[i].status]_vars

\* C6 (amended): an entry's status changes only to the status a status
\* request names (updateKpiEntryStatus, bulkUpdateStatus), to 'generated' by
\* generateMonthlyReport on a created or initiated entry, or to 'initiated'
\* by updateKpiEntry, which sets 'initiated' on the entry it updates whatever
\* its status and whatever status its payload carries; migration inserts
\* its entries as 'generated' and createKpiEntry as 'created'.
C6_StatusChangesByRequest ==
  [][/\ Len(store') >= Len(store)
     /\ \A i \in 1..Len(store) :
          store'[i].status # store[i].status =>
            \/ /\ task'[1].op \in {"status", "bulkStatus"}
               /\ store'[i].status = task'[1].status
            \/ /\ task'[1].op = "report"
               /\ store[i].status \in {"created", "initiated"}
               /\ store'[i].status = "generated"
            \/ /\ task'[1].op = "update" /\ task'[1].ok /\ task'[1].id = i
               /\ store'[i].status = "initiated"
     /\ \A i \in (Len(store) + 1)..Len(store') :
          \/ task[1].op = "migrate" /\ store'[i].status = "generated"
          \/ task[1].op = "create" /\ store'[i].status = "created"
     /\ task[1].op = "idle" /\ task'[1].op = "update" /\ task'[1].ok =>
          \A id \in 1..Len(store), payload \in UpdatePayloads :
            UpdateKpiEntry(1, id, payload) => store'[id].status = "initiated"]_vars

C6_Witness ==
  /\ task[1].op = "update" /\ task[1].pc = "done" /\ task[1].ok
  /\ task[1].id \in 1..Len(store)
  /\ store[task[1].id].status = "initiated"
  /\ store[task[1].id].kpiRef = Ref("court", "c1")
  /\ Len(store[task[1].id].values) = 2

\* C7: every stored entry's totalScore is the sum of the scores of its values.
C7_TotalIsSumOfScores ==
  \A i \in 1..Len(store) : store[i].totalScore = SumScores(store[i].values)

NamesOf(vals) == {vals[i].name : i \in 1..Len(vals)}

LastIndexOf(vals, n) ==
  CHOOSE i \in 1..Len(vals) :
    vals[i].name = n /\ \A j \in (i + 1)..Len(vals) : vals[j].name # n

\* stored list S of an entry of template tpl after merging V into E
MergedByName(tpl, E, V, S) ==
  /\ NamesOf(S) = NamesOf(E) \cup NamesOf(V)
  /\ Len(S) = Cardinality(NamesOf(S))
  /\ \A k \in 1..Len(S) :
       /\ S[k].name \in NamesOf(V) =>
            S[k].value = V[LastIndexOf(V, S[k].name)].value
       /\ S[k].name \notin NamesOf(V) =>
            \E j \in 1..Len(E) : E[j].name = S[k].name /\ E[j].value = S[k].value
       /\ FindItem(tpl, S[k].name) # 0
       /\ S[k].score = calculateScore(tpl.template[FindItem(tpl, S[k].name)],
                                      S[k].value)

\* C8: a successful updateKpiEntry with values V on an entry holding E stores
\* one value per name of E and V: V's value (the last given) for a name of V,
\* E's value unchanged for a name only in E, each with the score the scoring
\* engine gives the stored value under the entry's template.
C8_MergeByName ==
  [][task[1].op = "idle" /\ task'[1].op = "update" /\ task'[1].ok =>
     \A id \in 1..Len(store), payload \in UpdatePayloads :
       payload.hasValues /\ UpdateKpiEntry(1, id, payload) =>
         MergedByName(Templates[store[id].templateId], store[id].values,
                      payload.values, store'[id].values)]_vars

C8_Witness ==
  /\ task[1].op = "update" /\ task[1].pc = "done" /\ task[1].ok
  /\ task[1].id \in 1..Len(store)
  /\ store[task[1].id].values =
       << [name |-> "disposal", value |-> Num(60), score |-> 5],
          [name |-> "marks", value |-> Num(4), score |-> 4] >>

RECURSIVE SumTotalScore(_, _)
SumTotalScore(s, idx) ==
  IF idx = {} THEN 0
  ELSE LET i == CHOOSE x \in idx : TRUE
       IN s[i].totalScore + SumTotalScore(s, idx \ {i})

RECURSIVE SumMaxPossible(_, _)
SumMaxPossible(s, idx) ==
  IF idx = {} THEN 0
  ELSE LET i == CHOOSE x \in idx : TRUE
       IN SumMaxMarks(Templates[s[i].templateId].template)
            + SumMaxPossible(s, idx \ {i})

\* the entries of employee emp that are generated and pass the filters
CountedEntries(s, f, emp) ==
  { i \in 1..Len(s) :
      /\ s[i].createdFor = emp
      /\ s[i].status = "generated"
      /\ f.month # 0 => s[i].month = f.month
      /\ f.year # 0 => s[i].year = f.year
      /\ TemplateExists(s[i].templateId)
      /\ DepartmentMatch(Templates[s[i].templateId], f)
      /\ RoleMatch(Templates[s[i].templateId], f) }

\* C9: the rankings aggregate the generated entries only: the ranked
\* employees are those with a generated entry passing the filters, and each
\* one's totalScore, maxPossibleScore and kpiEntries come from exactly those
\* entries; created and initiated entries add nothing.
C9_OnlyGeneratedCounted ==
  task[1].op = "rankings" /\ task[1].pc = "done" =>
    LET f == task[1].ranked.filters
        R == task[1].ranked.rankings
        emps == {e \in Users : CountedEntries(store, f, e) # {}}
    IN /\ {R[k].employeeId : k \in 1..Len(R)} = emps
       /\ Len(R) = Cardinality(emps)
       /\ \A k \in 1..Len(R) :
            LET mine == CountedEntries(store, f, R[k].employeeId)
            IN /\ R[k].totalScore = SumTotalScore(store, mine)
               /\ R[k].maxPossibleScore = SumMaxPossible(store, mine)
               /\ Len(R[k].kpiEntries) = Cardinality(mine)
               /\ \A j \in 1..Len(R[k].kpiEntries) :
                    R[k].kpiEntries[j].status = "generated"

C9_Witness ==
  /\ task[1].op = "rankings" /\ task[1].pc = "done"
  /\ Len(task[1].ranked.rankings) = 1
  /\ Len(store) = 2
  /\ store[1].status = "generated" /\ store[1].totalScore > 0
  /\ store[2].status # "generated" /\ store[2].totalScore > 0

\* index of the first entry of the store counted for employee emp
FirstSeen(s, f, emp) ==
  CHOOSE i \in CountedEntries(s, f, emp) :
    \A j \in CountedEntries(s, f, emp) : i <= j

\* C10: the ranked employees come in non-increasing percentage
\* (totalScore / maxPossibleScore), their ranks are 1..n in that order, and
\* employees with equal percentage keep the order in which their first
\* entry was met.
C10_RankedDescendingStable ==
  task[1].op = "rankings" /\ task[1].pc = "done" =>
    LET f == task[1].ranked.filters
        R == task[1].ranked.rankings
        n == Cardinality({e \in StatEmployees : CountedEntries(store, f, e) # {}})
        num(r) == IF r.maxPossibleScore > 0 THEN r.totalScore ELSE 0
        den(r) == IF r.maxPossibleScore > 0 THEN r.maxPossibleScore ELSE 1
    IN /\ Len(R) = n
       /\ task[1].ranked.total = n
       /\ \A k \in 1..n : R[k].rank = k
       /\ \A i, j \in 1..n :
            i < j =>
              /\ num(R[i]) * den(R[j]) >= num(R[j]) * den(R[i])
              /\ num(R[i]) * den(R[j]) = num(R[j]) * den(R[i])
                 => FirstSeen(store, f, R[i].employeeId)
                      < FirstSeen(store, f, R[j].employeeId)

C10_Witness ==
  /\ task[1].op = "rankings" /\ task[1].pc = "done"
  /\ Len(task[1].ranked.rankings) = 3
  /\ LET R == task[1].ranked.rankings
     IN /\ R[1].employeeId = store[3].createdFor
        /\ R[2].totalScore * R[3].maxPossibleScore
             = R[3].totalScore * R[2].maxPossibleScore
        /\ R[1].totalScore * R[2].maxPossibleScore
             > R[2].totalScore * R[1].maxPossibleScore


\* C11: for n ranked employees, page p and limit L, getEmployeeRankings
\* returns the employees ranked (p-1)*L+1 .. min(p*L, n) in rank order, with
\* total = n, totalPages = ceil(n/L), hasNextPage iff p < ceil(n/L) and
\* hasPreviousPage iff p > 1.
C11_PageOfRanks ==
  task[1].op = "rankings" /\ task[1].pc = "done" =>
    LET f == task[1].ranked.filters
        r == task[1].ranked
        R == r.rankings
        n == Cardinality({e \in StatEmployees : CountedEntries(store, f, e) # {}})
        lo == (f.page - 1) * f.limit + 1
        hi == IF f.page * f.limit < n THEN f.page * f.limit ELSE n
        pages == CHOOSE k \in 0..n : k * f.limit >= n /\ (k = 0 \/ (k - 1) * f.limit < n)
        all == AddRanks(SortRankings(EmployeeScores(store, f)))
    IN /\ Len(R) = (IF hi >= lo THEN hi - lo + 1 ELSE 0)
       /\ \A k \in 1..Len(R) : R[k].rank = lo + k - 1 /\ R[k] = all[lo + k - 1]
       /\ r.total = n
       /\ r.totalPages = pages
       /\ r.hasNextPage <=> f.page < pages
       /\ r.hasPreviousPage <=> f.page > 1

C11_Witness ==
  /\ task[1].op = "rankings" /\ task[1].pc = "done"
  /\ task[1].ranked.total = 3
  /\ task[1].ranked.limit = 2 /\ task[1].ranked.page = 1
  /\ Len(task[1].ranked.rankings) = 2
  /\ task[1].ranked.rankings[1].rank = 1
  /\ task[1].ranked.rankings[2].rank = 2
  /\ task[1].ranked.hasNextPage
  /\ ~task[1].ranked.hasPreviousPage


\* percentage of the one entry an employee has, compared by cross-multiplying
EntryPctGE(e, r) ==
  e.totalScore * r.maxPossibleScore
    >= r.totalScore * SumMaxMarks(Templates[e.templateId].template)

EntryPctLE(e, r) ==
  e.totalScore * r.maxPossibleScore
    <= r.totalScore * SumMaxMarks(Templates[e.templateId].template)

\* C12: with n ranked employees, getTop5Percent returns ceil(n * 0.05)
\* employees none of whom is outscored by an employee left out, and
\* getBottom5Percent returns ceil(n * 0.05) employees none of whom outscores
\* an employee left out, whatever n is.
C12_CohortsOfWholeSet ==
  task[1].pc = "done" /\ task[1].op \in {"top5", "bottom5"} =>
    LET st == task[1].stats
        n == Cardinality({store[i].createdFor : i \in 1..Len(store)})
        c == CHOOSE k \in 0..n : 20 * k >= n /\ 20 * (k - 1) < n
        ids == {st.performers[k].employeeId : k \in 1..Len(st.performers)}
    IN /\ st.totalEmployees = n
       /\ st.count = c
       /\ Len(st.performers) = c
       /\ Cardinality(ids) = c
       /\ \A i \in 1..Len(store) :
            store[i].createdFor \notin ids =>
              \A k \in 1..Len(st.performers) :
                IF task[1].op = "top5"
                THEN EntryPctLE(store[i], st.performers[k])
                ELSE EntryPctGE(store[i], st.performers[k])


\* the ranked employees of department dept (with role role) in a store
\* where the first counted entry of an employee gives the department and role
EmployeesOf(s, f, dept) ==
  { e \in StatEmployees :
      /\ CountedEntries(s, f, e) # {}
      /\ Templates[s[FirstSeen(s, f, e)].templateId].departmentSlug = dept }

EmployeesOfRole(s, f, dept, role) ==
  { e \in EmployeesOf(s, f, dept) :
      Templates[s[FirstSeen(s, f, e)].templateId].role = role }

\* C13: every department statistics object holds, in roles, one role
\* statistics object per role present among the department's employees, and
\* each counts and ranks only that department's employees of that role.
C13_RolesNestedPerDepartment ==
  task[1].pc = "done" /\ task[1].op \in {"departments", "comprehensive"} =>
    LET f == CohortFilters
        D == task[1].stats.departments
    IN \A i \in 1..Len(D) :
         LET dept == D[i].departmentSlug
             present == { Templates[store[FirstSeen(store, f, e)].templateId].role :
                            e \in EmployeesOf(store, f, dept) }
         IN /\ {D[i].roles[k].role : k \in 1..Len(D[i].roles)} = present
            /\ Len(D[i].roles) = Cardinality(present)
            /\ \A k \in 1..Len(D[i].roles) :
                 LET rs == D[i].roles[k]
                     mine == EmployeesOfRole(store, f, dept, rs.role)
                 IN /\ rs.totalEmployees = Cardinality(mine)
                    /\ {rs.rankings[j].employeeId : j \in 1..Len(rs.rankings)} = mine

\* ---------------------------------------------------------------------------
\* C14: for a percentage item whose threshold rules are authored in any
\* order, a submitted value v in [0, 100] gets the score of the rule with
\* the greatest threshold that is <= v, and 0 when no threshold is <= v.
ScoredCall == task[1].op = "score" /\ task[1].pc = "done"

PctRules == task[1].args.template.template[1].scoringRules

RulesAtMost(rules, v) == {i \in 1..Len(rules) : rules[i].value.num <= v}

GreatestThresholdScore(rules, v) ==
  IF RulesAtMost(rules, v) = {} THEN 0
  ELSE LET best == CHOOSE i \in RulesAtMost(rules, v) :
                     \A j \in RulesAtMost(rules, v) :
                        rules[j].value.num <= rules[i].value.num
       IN rules[best].score

C14_GreatestThresholdAtMost ==
  (ScoredCall /\ task[1].ok) =>
    \A i \in 1..Len(task[1].args.values) :
       LET v == task[1].args.values[i]
       IN (v.name = "pct") =>
            /\ v.value.num \in 0..100
            /\ task[1].scored[i].name = "pct"
            /\ task[1].scored[i].score = GreatestThresholdScore(PctRules, v.value.num)

\* rules authored 50, 90, 70: 96 scores 10 and 75 scores 7
C14_Witness ==
  /\ ScoredCall /\ task[1].ok
  /\ PctRules = <<ThresholdRule(50, 5), ThresholdRule(90, 10), ThresholdRule(70, 7)>>
  /\ task[1].args.values = <<NamedValue("pct", Num(96)), NamedValue("pct", Num(75))>>
  /\ task[1].scored[1].score = 10
  /\ task[1].scored[2].score = 7

\* ---------------------------------------------------------------------------
\* C15 (as stated): for a score-type item, validateAndCalculateScores
\* returns min(value, maxMarks) for the submitted value: with maxMarks 20,
\* 25 gives 20 and 15 gives 15.
IsPoints(values) ==
  Len(values) = 1 /\ values[1].name = "points" /\ values[1].value.isNum
  /\ values[1].value.num >= 0

C15_ClampedToMaxMarks ==
  (ScoredCall /\ IsPoints(task[1].args.values)) =>
    /\ task[1].ok
    /\ Len(task[1].scored) = 1
    /\ task[1].scored[1].score = Min(task[1].args.values[1].value.num, ItemPoints.maxMarks)

\* C15 (amended): a score-type value within [0, maxMarks] is scored as the
\* value itself; a value above maxMarks is rejected with a range error and
\* nothing is scored.
C15_ScoreWithinMaxMarks ==
  (ScoredCall /\ IsPoints(task[1].args.values)) =>
    LET v == task[1].args.values[1].value.num
    IN IF v <= ItemPoints.maxMarks
       THEN /\ task[1].ok
            /\ Len(task[1].scored) = 1
            /\ task[1].scored[1].score = v
            /\ task[1].scored[1].score = Min(v, ItemPoints.maxMarks)
       ELSE /\ ~task[1].ok
            /\ task[1].error = "range"
            /\ task[1].scored = <<>>

C15_Witness ==
  /\ ScoredCall
  /\ task[1].args.values = <<NamedValue("points", Num(25))>>
  /\ ~task[1].ok
  /\ task[1].scored = <<>>

\* ---------------------------------------------------------------------------
\* C16: when any submitted value is invalid (unknown item, wrong type,
\* negative quantitative, percentage outside [0, 100], score outside
\* [0, maxMarks], unknown kpiType), validateAndCalculateScores fails with
\* an error and returns no scored list; when none is, it returns one score
\* per submitted value.
InItemDomain(item, value) ==
  IF item.kpiType = "quantitative" THEN value.isNum /\ value.num >= 0
  ELSE IF item.kpiType = "percentage"
       THEN value.isNum /\ value.num >= 0 /\ value.num <= 100
  ELSE IF item.kpiType = "score"
       THEN value.isNum /\ value.num >= 0 /\ value.num <= item.maxMarks
  ELSE IF item.kpiType \in {"binary", "qualitative"} THEN ~value.isNum
  ELSE FALSE

ValidSubmitted(template, v) ==
  \E i \in 1..Len(template.template) :
     /\ template.template[i].name = v.name
     /\ InItemDomain(template.template[i], v.value)

C16_AllOrNothing ==
  ScoredCall =>
    LET a == task[1].args
    IN IF \A i \in 1..Len(a.values) : ValidSubmitted(a.template, a.values[i])
       THEN task[1].ok /\ Len(task[1].scored) = Len(a.values)
       ELSE ~task[1].ok /\ task[1].error # "" /\ task[1].scored = <<>>

\* a valid value followed by an invalid one: nothing is scored
C16_Witness ==
  /\ ScoredCall
  /\ Len(task[1].args.values) = 2
  /\ ValidSubmitted(task[1].args.template, task[1].args.values[1])
  /\ ~ValidSubmitted(task[1].args.template, task[1].args.values[2])
  /\ ~task[1].ok
  /\ task[1].scored = <<>>

\* ---------------------------------------------------------------------------
\* C17: every percentage parseCsvData returns for a KPI is computed from
\* the registered cell at column 2 + ordinal * 3 and the disposed cell at
\* column 2 + ordinal * 3 + 1 of its line, where ordinal is the KPI's
\* position in kpiMappings of the configuration selected by
\* (departmentSlug, role); and a mapped KPI with valid cells there is
\* returned.
ParsedCall == task[1].op = "parse" /\ task[1].pc = "done" /\ task[1].ok

ClaimedPercentage(values, a, kpiName) ==
  PercentageAt(values, 2 + IndexOf(ConfigKpis(a.departmentSlug, a.role), kpiName) * 3)

C17_ColumnsOfSelectedConfig ==
  ParsedCall =>
    LET a == task[1].args
        kpis == ConfigKpis(a.departmentSlug, a.role)
    IN /\ \A j \in 1..Len(task[1].parsed) :
            \E i \in 2..Len(a.lines) :
               /\ task[1].parsed[j].officerName = ValueAt(a.lines[i], 0)
               /\ \A n \in 1..Len(task[1].parsed[j].kpiValues) :
                     LET kv == task[1].parsed[j].kpiValues[n]
                     IN /\ IndexOf(kpis, kv.name) >= 0
                        /\ kv.value = ClaimedPercentage(a.lines[i], a, kv.name)
       /\ \A i \in 3..Len(a.lines) : \A k \in 1..Len(kpis) :
            (/\ Len(a.lines[i]) >= 2
             /\ ValueAt(a.lines[i], 0) # Str("")
             /\ MatchedHeader(kpis[k], a.lines[1]) # ""
             /\ ClaimedPercentage(a.lines[i], a, kpis[k]) # NoValue)
            => \E j \in 1..Len(task[1].parsed) :
                 \E n \in 1..Len(task[1].parsed[j].kpiValues) :
                    task[1].parsed[j].kpiValues[n] =
                      [name |-> kpis[k],
                       value |-> ClaimedPercentage(a.lines[i], a, kpis[k])]

\* ---------------------------------------------------------------------------
\* C18: parseCsvData treats line[0] as headers and line[1] as sub-headers;
\* only line[2] and the lines after it are data rows, so the sub-header
\* line never produces a record.
C18_SubHeaderLineIsNoRecord ==
  ParsedCall =>
    /\ Len(task[1].parsed) <= Len(task[1].args.lines) - 2
    /\ \A j \in 1..Len(task[1].parsed) :
          \E i \in 3..Len(task[1].args.lines) :
             task[1].parsed[j].officerName = ValueAt(task[1].args.lines[i], 0)

\* ---------------------------------------------------------------------------
\* C19 (as stated): a record with a court name whose officer name matches
\* no member is skipped; when the member exists but holds no kpiRef
\* court = courtName, the record is not skipped and goes on to create an
\* entry for that member.
CheckedCourtRecord(p) ==
  /\ task[p].op = "migrate" /\ task[p].pc = "check"
  /\ task'[p] # task[p]
  /\ task[p].csv[task[p].idx].courtName # ""

SkippedStep(t, u) ==
  /\ store' = store
  /\ u.result.skippedEntries = t.result.skippedEntries + 1
  /\ u.result.successfulEntries = t.result.successfulEntries
  /\ u.result.failedEntries = t.result.failedEntries
  /\ u.idx = t.idx + 1
  /\ u.pc = IF t.idx < Len(t.csv) THEN "check" ELSE "done"

HoldsCourt(uid, court) ==
  \E i \in 1..Len(kpiRefOf[uid]) :
     kpiRefOf[uid][i].label = "court" /\ kpiRefOf[uid][i].value = court

C19_UnknownCourtFallsBack ==
  [][\A p \in Tasks :
       CheckedCourtRecord(p) =>
         LET t == task[p]
             record == t.csv[t.idx]
         IN IF UserOfName(record.officerName) = ""
            THEN SkippedStep(t, task'[p])
            ELSE ~HoldsCourt(UserOfName(record.officerName), record.courtName)
                 => task'[p].pc = "save" /\ task'[p].result = t.result]_vars

\* C19 (amended): a record with a court name is skipped, and no entry is
\* created for it, both when its officer name matches no member and when
\* the member exists but holds no kpiRef court = courtName.
C19_UnknownCourtIsSkipped ==
  [][\A p \in Tasks :
       CheckedCourtRecord(p) =>
         LET t == task[p]
             record == t.csv[t.idx]
         IN IF UserOfName(record.officerName) = ""
            THEN /\ SkippedStep(t, task'[p])
                 /\ task'[p].result.details[record.officerName].message
                      = "Member not found"
            ELSE ~HoldsCourt(UserOfName(record.officerName), record.courtName)
                 => /\ SkippedStep(t, task'[p])
                    /\ task'[p].result.details[record.officerName].message
                         = "Court not found in member's kpiRef"]_vars

\* the member holds court c1 only and its record for court c2 was skipped
C19_Witness ==
  /\ task[1].op = "migrate" /\ task[1].pc = "done"
  /\ task[1].csv = <<CsvRecord("A", "c2", <<Kv("disposal", 95)>>)>>
  /\ kpiRefOf["u1"] = <<Ref("court", "c1")>>
  /\ task[1].result.skippedEntries = 1
  /\ task[1].result.details["A"].message = "Court not found in member's kpiRef"
  /\ store = <<>>

\* ---------------------------------------------------------------------------
\* C20: a record whose member already has an entry for the same month,
\* year and template (and, for a court record, the same court) is skipped
\* and the store is left as it was; an entry of the member for another
\* court does not make a court record skipped.
SameKeyEntries(t, uid) ==
  {i \in 1..Len(store) :
     /\ store[i].createdFor = uid /\ store[i].month = t.month
     /\ store[i].year = t.year /\ store[i].templateId = t.templateId}

C20_DuplicateSkippedUnchanged ==
  [][\A p \in Tasks :
       ( /\ task[p].op = "migrate" /\ task[p].pc = "check"
         /\ task'[p] # task[p] )
       => LET t == task[p]
              record == t.csv[t.idx]
              uid == UserOfName(record.officerName)
          IN (uid # "" /\ (record.courtName # "" => HoldsCourt(uid, record.courtName)))
             => IF \E i \in SameKeyEntries(t, uid) :
                     record.courtName # "" => store[i].kpiRef.value = record.courtName
                THEN SkippedStep(t, task'[p])
                ELSE /\ task'[p].pc = "save"
                     /\ task'[p].result = t.result
                     /\ store' = store]_vars

\* the record for court c1 was skipped as a duplicate and the record for
\* court c2 of the same member goes on to be saved
C20_Witness ==
  /\ task[1].op = "migrate" /\ task[1].pc = "save" /\ task[1].idx = 2
  /\ task[1].csv[1].officerName = "A" /\ task[1].csv[1].courtName = "c1"
  /\ task[1].csv[2].officerName = "A" /\ task[1].csv[2].courtName = "c2"
  /\ task[1].result.skippedEntries = 1
  /\ task[1].result.details["A"].message = "Entry already exists for court"
  /\ \E i \in 1..Len(store) :
        store[i].createdFor = "u1" /\ store[i].kpiRef.value = "c1"
  /\ \A i \in 1..Len(store) : store[i].kpiRef.value # "c2"

\* ---------------------------------------------------------------------------
\* C24: when the departments filter is absent or empty, getEmployeeRankings
\* ranks only employees whose entries' template department is
\* collector-office.
RankedCall == task[1].op = "rankings" /\ task[1].pc = "done"

C24_DefaultIsCollectorOffice ==
  (RankedCall /\ task[1].ranked.filters.departments = {}) =>
    \A k \in 1..Len(task[1].ranked.rankings) :
       /\ task[1].ranked.rankings[k].departmentSlug = "collector-office"
       /\ \A j \in 1..Len(task[1].ranked.rankings[k].kpiEntries) :
             Templates[task[1].ranked.rankings[k].kpiEntries[j].templateId].departmentSlug
               = "collector-office"

\* ---------------------------------------------------------------------------
\* C25: an entry is counted iff its template's department is in the
\* inclusion list and not in excludeDepartments, and its template's role
\* starts with some prefix in roles (or roles is empty) and with no prefix
\* in excludeRoles; an excluded department or role is never counted.
InclusionList(f) ==
  IF f.departments = {} THEN {"collector-office", "revenue-department"}
  ELSE f.departments

EntryCounted(e, f) ==
  LET template == Templates[e.templateId]
  IN /\ template.departmentSlug \in InclusionList(f)
     /\ template.departmentSlug \notin f.excludeDepartments
     /\ f.roles = {} \/ \E r \in f.roles : StartsWith(template.role, r)
     /\ \A r \in f.excludeRoles : ~StartsWith(template.role, r)

ValidCells(values, k) ==
  /\ ValueAt(values, 2 + 3 * k).isNum /\ ValueAt(values, 2 + 3 * k + 1).isNum
  /\ ValueAt(values, 2 + 3 * k).num > 0

IsCappedPercentage(value, disposed, registered) ==
  IF disposed >= registered THEN value = 10000
  ELSE /\ 2 * registered * value <= 2 * disposed * 10000 + registered
       /\ 2 * disposed * 10000 + registered < 2 * registered * (value + 1)

TehsildarCall == ParsedCall /\ task[1].args.role = "tehsildar"

NamesIn(kpiValues) == {kpiValues[n].name : n \in 1..Len(kpiValues)}

C26_ShortCsvFailsFirst ==
  (task[1].op = "parse" /\ task[1].pc = "done" /\ Len(task[1].args.lines) < 2) =>
    /\ ~task[1].ok
    /\ task[1].error = "TypeError"
    /\ task[1].parsed = <<>>

C26_Witness ==
  /\ task[1].op = "parse" /\ task[1].pc = "done"
  /\ Len(task[1].args.lines) = 1
  /\ ~HasParserConfig(task[1].args.departmentSlug, task[1].args.role)
  /\ ~task[1].ok /\ task[1].error = "TypeError"

\* ---------------------------------------------------------------------------
\* C28: every KPI value of a record parseCsvData returns lies in [0, 100],
\* whatever integers the registered and disposed cells hold.
C28_ValuesWithinRange ==
  ParsedCall =>
    \A j \in 1..Len(task[1].parsed) :
       \A n \in 1..Len(task[1].parsed[j].kpiValues) :
          /\ task[1].parsed[j].kpiValues[n].value >= 0
          /\ task[1].parsed[j].kpiValues[n].value <= 10000

\* ---------------------------------------------------------------------------
\* C27: generateMonthlyReport(month, year, department) sets to generated
\* exactly the entries of that month and year (and of the department's
\* templates) whose status is created or initiated, whose template exists
\* and whose values are not empty; every other entry stays as it was, and
\* totalEntries = updatedEntries + skippedEntries.
ReportTurnsGenerated(e, m, y, department) ==
  /\ e.month = m /\ e.year = y
  /\ e.status \in {"created", "initiated"}
  /\ e.templateId \in TemplateIds
  /\ department # "" => Templates[e.templateId].departmentSlug = department
  /\ e.values # <<>>

C27_ReportChangesOnlyItsEntries ==
  [][(task[1].op = "idle" /\ task'[1].op = "report") =>
       LET u == task'[1]
       IN /\ Len(store') = Len(store)
          /\ \A i \in 1..Len(store) :
               IF ReportTurnsGenerated(store[i], u.month, u.year, u.report.department)
               THEN store'[i] = [store[i] EXCEPT !.status = "generated"]
               ELSE store'[i] = store[i]
          /\ u.report.totalEntries = u.report.updatedEntries + u.report.skippedEntries
          /\ u.report.updatedEntries =
               Cardinality({i \in 1..Len(store) : store'[i] # store[i]})]_vars

\* one entry was marked generated, one of the period was skipped for its
\* empty values and left as it was
C27_Witness ==
  /\ task[1].op = "report" /\ task[1].pc = "done"
  /\ task[1].report.updatedEntries = 1 /\ task[1].report.skippedEntries = 1
  /\ Len(store) = 2
  /\ store[1].status = "generated" /\ store[1].values # <<>>
  /\ store[1].month = task[1].month
  /\ store[2].status = "initiated" /\ store[2].values = <<>>
  /\ store[2].month = task[1].month

\* ---------------------------------------------------------------------------
\* C29: when updateKpiEntry fails (entry not found, template not found, a
\* merged value name absent from the template, a value outside its domain),
\* every stored entry -- values, scores, totalScore, status -- is exactly as
\* it was before the call.
UpdateErrors ==
  {"KPI entry not found", "KPI template not found", "Invalid KPI items"}
  \cup {validateAndCalculateScores(Templates["t1"], <<Nv(n, v)>>).error :
          n \in {"disposal", "marks"}, v \in {Num(9), Num(101), Str("high")}}

C29_FailedUpdateChangesNothing ==
  [][(task[1].op = "idle" /\ task'[1].op = "update" /\ ~task'[1].ok) =>
       /\ store' = store
       /\ task'[1].error \in UpdateErrors]_vars

\* a generated entry with stored values, left generated and with its values
\* and total by an update that was refused for a value outside its domain
C29_Witness ==
  /\ task[1].op = "update" /\ task[1].pc = "done" /\ ~task[1].ok
  /\ task[1].error \notin
       {"", "KPI entry not found", "KPI template not found", "Invalid KPI items"}
  /\ task[1].id \in 1..Len(store)
  /\ store[task[1].id].status = "generated"
  /\ store[task[1].id].values # <<>>
  /\ store[task[1].id].totalScore = 10

\* ---------------------------------------------------------------------------
\* C30: after createKpiEntryFromCsvData, the number of entries of
\* result.details with success = true equals successfulEntries and the
\* number of entries of result.details equals totalRecords, also when the
\* same officer name occurs in several records.
DetailNames(r) == {n \in OfficerNames : r.details[n].present}

C30_DetailsCountRecords ==
  \A p \in Tasks :
    task[p].op = "migrate" /\ task[p].pc = "done" /\ task[p].ok =>
      LET r == task[p].result
      IN /\ Cardinality({n \in DetailNames(r) : r.details[n].success})
              = r.successfulEntries
         /\ Cardinality(DetailNames(r)) = r.totalRecords

\* ---------------------------------------------------------------------------
\* C21: normalizeHeader(header, table) returns the canonical key of the
\* best-scoring variant, where a case-insensitive exact match with the
\* trimmed header scores 100 and containment in either direction scores 50;
\* among variants of the same best score the key met first in the table's
\* iteration order wins; the result is null iff no variant scores above 0.
NormalizedCall(p) == task[p].op = "normalize" /\ task[p].pc = "done"

SameIgnoringCase(s, t) ==
  /\ Len(s) = Len(t)
  /\ \A i \in 1..Len(s) : s[i] = t[i] \/ {s[i], t[i]} = {"a", "A"}

ContainsIgnoringCase(s, t) ==
  \E i \in 0..(Len(s) - Len(t)) : SameIgnoringCase(SubSeq(s, i + 1, i + Len(t)), t)

ClaimedScore(header, variation) ==
  IF SameIgnoringCase(trim(header), variation) THEN 100
  ELSE IF \/ ContainsIgnoringCase(trim(header), variation)
          \/ ContainsIgnoringCase(variation, trim(header))
       THEN 50
       ELSE 0

\* the scores of the variations under the k-th header of the table
ScoresUnder(header, table, k) ==
  {ClaimedScore(header, table[k].variations[v]) :
     v \in 1..Len(table[k].variations)}

C21_BestScoringFirstKey ==
  \A p \in Tasks :
    NormalizedCall(p) =>
      LET header == task[p].args.header
          table == task[p].args.normalizations
          result == task[p].matched.normalizedHeader
          scores == UNION {ScoresUnder(header, table, k) : k \in 1..Len(table)}
          best == CHOOSE s \in scores \cup {0} : \A t \in scores : t <= s
      IN IF best = 0 THEN result = ""
         ELSE \E k \in 1..Len(table) :
                /\ best \in ScoresUnder(header, table, k)
                /\ \A j \in 1..(k - 1) : best \notin ScoresUnder(header, table, j)
                /\ result = table[k].standardHeader

\* " A" is, trimmed and in lower case, a variation of k1 and of k2, and is
\* contained in another variation of k2: the first key is returned
C21_Witness ==
  /\ NormalizedCall(1)
  /\ task[1].args.header = <<" ", "A">>
  /\ task[1].args.normalizations =
       <<Entry("k1", <<<<"a">>>>), Entry("k2", <<<<"a", "b">>, <<"A">>>>)>>
  /\ task[1].matched.normalizedHeader = "k1"

\* ---------------------------------------------------------------------------
\* C22: findBestHeaderMatch(target, headers) returns null when the target
\* has no canonical form; otherwise, if some non-empty available header
\* normalizes to the target's canonical key, it returns such a header with
\* confidence 1.0; only when none does, it returns the available header of
\* the highest edit-distance similarity to the target among those of
\* similarity above 0.7, or null when there is none.
MatchedCall(p) == task[p].op = "match" /\ task[p].pc = "done"

C22_ExactElseMostSimilar ==
  \A p \in Tasks :
    MatchedCall(p) =>
      LET target == task[p].args.targetHeader
          headers == task[p].args.availableHeaders
          table == task[p].args.normalizations
          r == task[p].matched
          key == normalizeHeader(target, table)
          filled == {i \in 1..Len(headers) : trim(headers[i]) # <<>>}
          exact == {i \in filled : normalizeHeader(headers[i], table) = key}
          similar == {i \in filled :
                        GreaterThan(calculateSimilarity(headers[i], target),
                                    FuzzyThreshold)}
      IN IF key = "" THEN ~r.found
         ELSE IF exact # {}
         THEN /\ r.found /\ r.confidence = Fraction(1, 1)
              /\ \E i \in exact : r.originalHeader = headers[i]
         ELSE IF similar = {} THEN ~r.found
         ELSE /\ r.found
              /\ \E i \in similar :
                   /\ r.originalHeader = headers[i]
                   /\ \A j \in similar :
                        ~GreaterThan(calculateSimilarity(headers[j], target),
                                     calculateSimilarity(headers[i], target))

====
